---- MODULE Spec2Model ----
(***************************************************************************)
(* Verification model of the AutomatedDocumentation summarizer core:       *)
(*   cache.py         ResponseCache (result cache + progress ledger)       *)
(*   manual_utils.py  _summarize_manual (concurrent map stage, merge)      *)
(*   chunk_utils.py   tokenizer fallback, _split_blocks, chunk_text        *)
(*                                                                         *)
(* Strings are sequences of one-character strings, so that slicing,        *)
(* splitting and joining are computed as the Python code computes them.    *)
(***************************************************************************)
EXTENDS Integers, Sequences, FiniteSets, TLC

VARIABLES
    \* ---- cache.py : ResponseCache over one cache file ----
    file,       \* content of the cache file on disk
    data,       \* ResponseCache._data of the live object
    proc,       \* "none" | "open" | "raised" : state of the cache object
    last,       \* the last call made on the cache and what it returned
    acked,      \* history: key -> value of the last set(key, value) that returned
    ackedProg,  \* history: path -> payload of the last set_progress_entry that returned
    torn,       \* history: a process ended in the middle of _save
    stores,     \* history: the complete stores the file may legitimately hold
    \* ---- manual_utils.py : _summarize_manual, two runs over one cache file ----
    parts,      \* the chunks _split_text returned for the text
    run,        \* 1 or 2: which call of _summarize_manual is executing
    mpc,        \* position of the calling thread in _summarize_manual
    partials,   \* the partials dict, as (idx, text) pairs in insertion order
    futures,    \* idx -> state of the future submitted for chunk idx
    completed,  \* the order in which as_completed yields the futures
    calls,      \* the summarizer calls made in this run, in order
    merge,      \* the hierarchical merge loop: iteration, merge_input, sub_parts, new_partials
    results,    \* run -> what that call of _summarize_manual returned
    writers,    \* the threads that are inside ResponseCache.set for a result of the map stage
    \* ---- chunk_utils.py : chunk_text ----
    text,       \* the input text
    budget,     \* chunk_size_tokens
    chunks,     \* the list chunk_text returned
    cpc,        \* "start" | "done"
    \* ---- cache.py : make_key on two (file_path, content) pairs ----
    keyIn,      \* the two argument pairs
    keyOut,     \* the two keys returned
    kpc,        \* "start" | "done"
    \* ---- summarize_utils.py : one call of summarize_chunked ----
    sargs,      \* the arguments of the call and the summarizer stub in use
    stack,      \* the frames of summarize_chunked and _merge_recursive, innermost last
    pending,    \* what the frame that just ended handed to its caller: a value or an exception
    scalls,     \* the summarizer calls made, in order
    shist,      \* history: failures so far, and the merge input sizes of nested merges
    \* ---- explaincode.py : map_evidence_to_sections and main ----
    docs,       \* the documents read: (path, text) pairs in dict order
    sectionMap, \* section -> the (path, snippet) entries map_evidence_to_sections returned
    epc,        \* "start" | "done"
    mopts,      \* the options of main, whether scan_code finds code, the answers of the LLM
    response,   \* the manual text (the local variable response of main)
    msections,  \* the sections handed to render_html: (name, text) pairs in dict order
    xpc,        \* "start" | "generated" | "filled" | "failed" | "render"
    \* ---- one function applied to one input ----
    fnIn,       \* the arguments
    fnOut,      \* the value returned
    fnPc,       \* "start" | "done"
    \* ---- docgenerator.py : a run of main that is interrupted, then resumed ----
    rfile,      \* cache.json: how complete its text is and the progress ledger it holds
    rdata,      \* the progress ledger of the running process (_data["__progress__"])
    rrun,       \* 0 before the first run, 1 in it, 2 in the resumed run
    ridx,       \* the position of the module the loop is at
    rcalls,     \* the modules summarized by the current run, in order
    rout,       \* the modules the current run has written a page for
    rhist,      \* the number of modules; history: the modules the first run completed, the ledger the resumed run read
    rpc,        \* "idle" | "loop" | "record" | "clear" | "interrupted" | "done"
    \* ---- llm_client.py : one call of LLMClient.summarize ----
    attempts,       \* what happened to each requests.post so far
    sleeps,         \* the calls of time.sleep(1) so far
    error_message,  \* the local variable of that name
    lret,           \* how the call ended: a value returned or an exception raised
    lpc             \* "loop" | "exhausted" | "done"

cacheVars == <<file, data, proc, last, acked, ackedProg, torn, stores>>
manualVars == <<parts, run, mpc, partials, futures, completed, calls, merge, results,
                writers>>
chunkVars == <<text, budget, chunks, cpc>>
keyVars == <<keyIn, keyOut, kpc>>

sumVars == <<sargs, stack, pending, scalls, shist>>

evidenceVars == <<docs, sectionMap, epc>>
mainVars == <<mopts, response, msections, xpc>>
fnVars == <<fnIn, fnOut, fnPc>>
resumeVars == <<rfile, rdata, rrun, ridx, rcalls, rout, rhist, rpc>>
retryVars == <<attempts, sleeps, error_message, lret, lpc>>
extVars == <<evidenceVars, mainVars, fnVars, resumeVars, retryVars>>

vars == <<cacheVars, manualVars, chunkVars, keyVars, sumVars, extVars>>

-----------------------------------------------------------------------------
(* Python str operations.  A string is a sequence of symbols: single       *)
(* characters where the code slices or scans text, whole words where it    *)
(* only compares or joins.                                                 *)

IsSpace(c) == c \in {" ", "\n", "\t", "\r", "\f"}

\* the grave accent character (U+0060), and the Markdown fence marker made of three
Backtick == "BT"
Fence == <<Backtick, Backtick, Backtick>>

\* s[i:j] with 0-based i, j already clamped to 0..len(s)
Slice(s, i, j) == IF j <= i THEN <<>> ELSE SubSeq(s, i + 1, j)

\* s.startswith(p)
StartsWith(s, p) == Len(p) <= Len(s) /\ SubSeq(s, 1, Len(p)) = p

\* s.lstrip(), s.rstrip(), s.strip()
RECURSIVE LStrip(_)
LStrip(s) == IF s # <<>> /\ IsSpace(Head(s)) THEN LStrip(Tail(s)) ELSE s
RECURSIVE RStrip(_)
RStrip(s) ==
    IF s # <<>> /\ IsSpace(s[Len(s)]) THEN RStrip(SubSeq(s, 1, Len(s) - 1)) ELSE s
Strip(s) == RStrip(LStrip(s))

\* sep.join(items)
RECURSIVE Join(_, _)
Join(sep, items) ==
    IF items = <<>> THEN <<>>
    ELSE IF Len(items) = 1 THEN items[1]
    ELSE items[1] \o sep \o Join(sep, Tail(items))

\* the elements of a set of numbers in ascending order
Ascending(S) ==
    [k \in 1..Cardinality(S) |-> CHOOSE x \in S : Cardinality({y \in S : y < x}) = k - 1]

\* s.splitlines(): the lines between line boundaries ("\n", "\r", "\r\n",
\* "\f" among others), no empty last line after a final boundary
LineBoundaries == {"\n", "\r", "\f"}
\* the positions where a line boundary ends, and where that boundary begins
LineEnds(s) ==
    {i \in 1..Len(s) : /\ s[i] \in LineBoundaries
                       /\ ~(s[i] = "\r" /\ i < Len(s) /\ s[i + 1] = "\n")}
LineEndStart(s, i) == IF s[i] = "\n" /\ i > 1 /\ s[i - 1] = "\r" THEN i - 1 ELSE i
SplitLines(s) ==
    LET ends == Ascending(LineEnds(s))
        n == Len(ends)
        from(k) == IF k = 1 THEN 1 ELSE ends[k - 1] + 1
        lines == [k \in 1..n |-> SubSeq(s, from(k), LineEndStart(s, ends[k]) - 1)]
        tailFrom == IF n = 0 THEN 1 ELSE ends[n] + 1
    IN IF tailFrom <= Len(s) THEN Append(lines, SubSeq(s, tailFrom, Len(s))) ELSE lines

\* s.split(): the maximal runs of non-whitespace symbols
TokenStarts(s) ==
    {i \in 1..Len(s) : ~IsSpace(s[i]) /\ (i = 1 \/ IsSpace(s[i - 1]))}
TokenEnd(s, i) ==
    CHOOSE j \in i..Len(s) : /\ \A k \in i..j : ~IsSpace(s[k])
                             /\ (j = Len(s) \/ IsSpace(s[j + 1]))
Split(s) ==
    LET starts == Ascending(TokenStarts(s))
    IN [k \in 1..Len(starts) |-> SubSeq(s, starts[k], TokenEnd(s, starts[k]))]

\* s.count(p): the non-overlapping occurrences of p, scanning from the left
RECURSIVE Count(_, _)
Count(s, p) ==
    IF Len(s) < Len(p) THEN 0
    ELSE IF StartsWith(s, p) THEN 1 + Count(SubSeq(s, Len(p) + 1, Len(s)), p)
    ELSE Count(Tail(s), p)

\* re.sub(p1|p2|..., "", s): the leftmost non-overlapping matches removed
RECURSIVE RemoveAllFrom(_, _)
RemoveAllFrom(s, pats) ==
    IF s = <<>> THEN <<>>
    ELSE IF \E p \in pats : StartsWith(s, p)
         THEN LET p == CHOOSE q \in pats : StartsWith(s, q)
              IN RemoveAllFrom(SubSeq(s, Len(p) + 1, Len(s)), pats)
    ELSE <<Head(s)>> \o RemoveAllFrom(Tail(s), pats)
RemoveAll(s, pats) ==
    IF \E i \in 1..Len(s), p \in pats : StartsWith(SubSeq(s, i, Len(s)), p)
    THEN RemoveAllFrom(s, pats)
    ELSE s

-----------------------------------------------------------------------------
(* Bounds of the cache model *)
NumKeys == 2
NumValues == 2
NumPaths == 1
NumPayloads == 2

PROGRESS_KEY == <<"__progress__">>

\* ordinary cache keys "k1", "k2", ... and the one reserved key
PlainKeys == {<<"k" \o ToString(i)>> : i \in 1..NumKeys}
Keys == PlainKeys \cup {PROGRESS_KEY}
\* cached response texts; the empty string is a legal response
Values == {<<>>} \cup {<<"v" \o ToString(i)>> : i \in 1..(NumValues - 1)}
Paths == {"m" \o ToString(i) \o ".py" : i \in 1..NumPaths}
Payloads == {"d" \o ToString(i) : i \in 1..NumPayloads}

NoEntry == "<absent>"
\* a Python dict path -> payload, NoEntry where the path is not a key
EmptyProgress == [p \in Paths |-> NoEntry]

\* a value stored in _data: absent, a str, or a dict (the progress map)
None == [t |-> "none", s |-> <<>>, d |-> EmptyProgress]
Str(s) == [t |-> "str", s |-> s, d |-> EmptyProgress]
Dict(d) == [t |-> "dict", s |-> <<>>, d |-> d]

\* the Python literal {}
EmptyData == [k \in {} |-> None]

\* dict.get(key) and dict[key] = val
DictGet(d, key) == IF key \in DOMAIN d THEN d[key] ELSE None
DictPut(d, key, val) ==
    [k \in DOMAIN d \cup {key} |-> IF k = key THEN val ELSE d[k]]

-----------------------------------------------------------------------------
(* cache.py: the cache file and json.dumps / json.loads *)

\* what the cache file holds.  kind:
\*   "absent"       no file
\*   "object"       the complete text json.dumps wrote for the dict obj
\*   "empty"        opened for writing (truncated), nothing written yet
\*   "prefix"       a strict prefix of the text of a JSON object
\*   "invalid_json" readable text that is not JSON
\*   "bad_utf8"     bytes that are not UTF-8
\*   "non_object"   valid JSON that is not an object (a list, null, a string)
File(kind, obj) == [kind |-> kind, obj |-> obj]

CorruptKinds == {"invalid_json", "bad_utf8", "non_object"}

\* json.dumps(self._data, indent=2, sort_keys=True): the text of one JSON object
JsonDumps(d) == File("object", d)

\* self.file.read_text(encoding="utf-8") then json.loads: the value, or the
\* exception raised.  A strict prefix of an object's text has an unclosed
\* brace and the empty text holds no value: both are JSONDecodeError.
ReadAndLoad(f) ==
    CASE f.kind = "object" -> [exc |-> "", isdict |-> TRUE, obj |-> f.obj]
      [] f.kind \in {"empty", "prefix", "invalid_json"} ->
            [exc |-> "JSONDecodeError", isdict |-> FALSE, obj |-> EmptyData]
      [] f.kind = "bad_utf8" ->
            [exc |-> "UnicodeDecodeError", isdict |-> FALSE, obj |-> EmptyData]
      [] f.kind = "non_object" ->
            [exc |-> "", isdict |-> FALSE, obj |-> EmptyData]

\* dict.setdefault("__progress__", {})
SetDefaultProgress(d) ==
    IF PROGRESS_KEY \in DOMAIN d THEN d
    ELSE DictPut(d, PROGRESS_KEY, Dict(EmptyProgress))

\* ResponseCache.__init__: the _data it builds, or the exception it raises
Construct(f) ==
    IF f.kind = "absent"
    THEN [exc |-> "", d |-> SetDefaultProgress(EmptyData)]
    ELSE LET r == ReadAndLoad(f) IN
         CASE r.exc = "JSONDecodeError" ->
                  [exc |-> "", d |-> SetDefaultProgress(EmptyData)]
           [] r.exc = "UnicodeDecodeError" ->
                  [exc |-> "UnicodeDecodeError", d |-> EmptyData]
           [] r.exc = "" /\ ~r.isdict ->
                  [exc |-> "AttributeError", d |-> EmptyData]
           [] OTHER -> [exc |-> "", d |-> SetDefaultProgress(r.obj)]

\* ResponseCache._save, Path.write_text: the file is opened for writing, which
\* truncates it, and the text is then written.  outcome tells how far the
\* process got: "returned", or killed before / in the middle of / after the write.
SaveOutcomes == {"returned", "killed_empty", "killed_prefix", "killed_written"}
Save(d, outcome) ==
    CASE outcome = "killed_empty" -> File("empty", EmptyData)
      [] outcome = "killed_prefix" -> File("prefix", EmptyData)
      [] OTHER -> JsonDumps(d)

\* ResponseCache.get
Get(d, key) == DictGet(d, key)

\* ResponseCache.get_progress: dict(self._data.get("__progress__", {}))
\* dict() of a dict copies it, of "" is {}, of any other str raises ValueError
GetProgress(d) ==
    LET progress == DictGet(d, PROGRESS_KEY) IN
    CASE progress.t = "dict" -> [exc |-> "", d |-> progress.d]
      [] progress.t = "none" -> [exc |-> "", d |-> EmptyProgress]
      [] progress.t = "str" /\ progress.s = <<>> -> [exc |-> "", d |-> EmptyProgress]
      [] OTHER -> [exc |-> "ValueError", d |-> EmptyProgress]

Call(op, arg, ret, exc) == [op |-> op, arg |-> arg, ret |-> ret, exc |-> exc]

-----------------------------------------------------------------------------
(* cache.py: ResponseCache.make_key *)

\* Python None passed as content: a value that is no string
NoneArg == <<"<<PyNone>>">>

\* to_hash = "<None>" if content is None else content
ToHash(content) == IF content = NoneArg THEN <<"<None>">> ELSE content

\* hashlib.sha256(to_hash.encode("utf-8")).hexdigest(): 64 hex digits, here one
\* symbol that names the hashed string (the hash is taken as collision-free)
Sha256Hex(s) == <<"sha256=" \o ToString(s)>>

\* f"{file_path}:{digest}"
MakeKey(file_path, content) == file_path \o <<":">> \o Sha256Hex(ToHash(content))

-----------------------------------------------------------------------------
(* llm_client.py: sanitize_summary, on texts whose symbols are words,       *)
(* spaces, "\n" and punctuation                                            *)

\* str.lower on the symbols the model uses
\* str.lower on one symbol: the symbols of the model that hold capitals
Capitalised ==
    ("It" :> "it") @@ ("Overview" :> "overview") @@ ("Usage" :> "usage")
    @@ ("Inputs" :> "inputs") @@ ("Tests" :> "tests") @@ ("Examples" :> "examples")
    @@ ("README.md" :> "readme.md") @@ ("Docs" :> "docs")
Lower(sym) == IF sym \in DOMAIN Capitalised THEN Capitalised[sym] ELSE sym
LowerStr(s) == [i \in 1..Len(s) |-> Lower(s[i])]

\* p in s
RECURSIVE Contains(_, _)
Contains(s, p) ==
    IF Len(s) < Len(p) THEN FALSE
    ELSE StartsWith(s, p) \/ Contains(Tail(s), p)

\* the words of a phrase with single spaces between them
Phrase(words) == Join(<<" ">>, [i \in 1..Len(words) |-> <<words[i]>>])

\* r"<\|f(?:im|m)_(?:prefix|middle|suffix)\|>"
SanitizeFimPatterns ==
    {<<open, name, "|>">> : open \in {"<|fim_", "<|fm_"},
                            name \in {"prefix", "middle", "suffix"}}

BAD_START_PHRASES ==
    { Phrase(<<"summarize">>), Phrase(<<"you", "are">>), Phrase(<<"you", "can">>),
      Phrase(<<"note", "that">>), Phrase(<<"the", "code", "above">>),
      Phrase(<<"this", "script">>), Phrase(<<"here's", "how">>),
      Phrase(<<"to", "run", "this">>), Phrase(<<"let's">>),
      Phrase(<<"for", "example">>), Phrase(<<"you", "might">>),
      Phrase(<<"we", "can">>), Phrase(<<"should", "you">>),
      Phrase(<<"if", "you", "want">>), Phrase(<<"the", "summary">>),
      Phrase(<<"this", "explanation">>), Phrase(<<"this", "output">>),
      Phrase(<<"this", "description">>), Phrase(<<"this", "response">>) }

BAD_CONTAINS ==
    { Phrase(<<"documentation", "engine">>), Phrase(<<"summarize", "the", "following">>),
      Phrase(<<"as", "an", "ai", "language", "model">>),
      Phrase(<<"as", "a", "language", "model">>), Phrase(<<"as", "an", "ai", "model">>),
      Phrase(<<"i", "am", "an", "ai">>), Phrase(<<"i'm", "an", "ai">>) }

\* the further phrases tested with "in line_lower"
MetaPhrases ==
    { Phrase(<<"this", "summary">>), Phrase(<<"this", "output">>),
      Phrase(<<"this", "response">>), Phrase(<<"does", "not", "include">>),
      Phrase(<<"avoids", "addressing">>) }

\* r"^this (script|code|file) (does|is)\b"
ThisCodeIs ==
    {Phrase(<<"this", n, v>>) : n \in {"script", "code", "file"}, v \in {"does", "is"}}

\* lines of the prompt templates that the model's symbols can spell:
\* "Code:", the fence line opening a python block, the bare fence line
PROMPT_LINE_SET == {<<"code:">>, Fence \o <<"python">>, Fence}

\* the tests of the loop body: TRUE when the line is left out
DropLine(line) ==
    LET stripped == Strip(line)
        line_lower == LowerStr(stripped)
    IN \/ line_lower \in PROMPT_LINE_SET
       \/ StartsWith(stripped, <<"-">>) \/ StartsWith(stripped, <<"*">>)
       \/ \E p \in BAD_START_PHRASES : StartsWith(line_lower, p)
       \/ \E p \in BAD_CONTAINS : Contains(line_lower, p)
       \/ \E p \in MetaPhrases : Contains(line_lower, p)
       \/ \E p \in ThisCodeIs :
             /\ StartsWith(line_lower, p)
             /\ (Len(line_lower) = Len(p) \/ line_lower[Len(p) + 1] = " ")

RECURSIVE FilterLines(_)
FilterLines(lines) ==
    IF lines = <<>> THEN <<>>
    ELSE IF DropLine(Head(lines)) THEN FilterLines(Tail(lines))
    ELSE <<Strip(Head(lines))>> \o FilterLines(Tail(lines))

\* sanitize_summary(text)
SanitizeSummary(t) ==
    IF Strip(t) = Phrase(<<"project", "summary">>) THEN Phrase(<<"It", "prints.">>)
    ELSE LET cleaned == RemoveAll(t, SanitizeFimPatterns)
             lines == SplitLines(Strip(cleaned))
         IN Strip(Join(<<"\n">>, FilterLines(lines)))

-----------------------------------------------------------------------------
(* Values the variables of the other components keep while one runs *)
CacheIdle ==
    /\ file = File("absent", EmptyData) /\ data = EmptyData /\ proc = "none"
    /\ last = Call("none", <<>>, None, "")
    /\ acked = EmptyData /\ ackedProg = EmptyProgress
    /\ torn = FALSE /\ stores = {}
\* before the while loop of _summarize_manual: iteration = 0
NoMerge == [iteration |-> 0, input |-> <<>>, sub_parts |-> <<>>, new_partials |-> <<>>, next |-> 1]
ManualIdle ==
    /\ parts = <<>> /\ run = 0 /\ mpc = "idle" /\ partials = <<>>
    /\ futures = <<>> /\ completed = <<>> /\ calls = <<>> /\ results = <<>>
    /\ merge = NoMerge /\ writers = {}
ChunkIdle == text = <<>> /\ budget = 0 /\ chunks = <<>> /\ cpc = "idle"
KeyIdle == keyIn = <<>> /\ keyOut = <<>> /\ kpc = "idle"
NoPending == [kind |-> "none", v |-> <<>>]
NoHistory == [failures |-> 0, nested |-> <<>>, fallbacks |-> <<>>]
SumIdle ==
    /\ sargs = <<>> /\ stack = <<>> /\ pending = NoPending
    /\ scalls = <<>> /\ shist = NoHistory
EvidenceIdle == docs = <<>> /\ sectionMap = <<>> /\ epc = "idle"
MainIdle == mopts = <<>> /\ response = <<>> /\ msections = <<>> /\ xpc = "idle"
FnIdle == fnIn = <<>> /\ fnOut = <<>> /\ fnPc = "idle"
ResumeIdle ==
    /\ rfile = <<>> /\ rdata = {} /\ rrun = 0 /\ ridx = 0 /\ rcalls = <<>> /\ rout = {}
    /\ rhist = <<>> /\ rpc = "off"
NoReturn == [kind |-> "none", value |-> <<>>]
RetryIdle ==
    /\ attempts = <<>> /\ sleeps = 0 /\ error_message = <<>> /\ lret = NoReturn
    /\ lpc = "idle"
ExtIdle == EvidenceIdle /\ MainIdle /\ FnIdle /\ ResumeIdle /\ RetryIdle

-----------------------------------------------------------------------------
(* cache.py: the operations of ResponseCache, one process at a time *)

\* the files a run may find: none, or one that is not a cache store
InitialFiles == {File(k, EmptyData) : k \in {"absent"} \cup CorruptKinds}

CacheInit ==
    /\ file \in InitialFiles
    /\ data = EmptyData /\ proc = "none"
    /\ last = Call("none", <<>>, None, "")
    /\ acked = EmptyData /\ ackedProg = EmptyProgress
    /\ torn = FALSE /\ stores = {}
    /\ ManualIdle /\ ChunkIdle /\ KeyIdle /\ SumIdle /\ ExtIdle

otherThanCache == <<manualVars, chunkVars, keyVars, sumVars, extVars>>

\* ResponseCache(path): a process starts and constructs the cache object
Open ==
    /\ proc = "none"
    /\ LET c == Construct(file) IN
       /\ proc' = IF c.exc = "" THEN "open" ELSE "raised"
       /\ data' = c.d
       /\ last' = Call("open", <<>>, None, c.exc)
    /\ UNCHANGED <<file, acked, ackedProg, torn, stores, otherThanCache>>

\* the process ends between two calls (or after the constructor raised)
Exit ==
    /\ proc \in {"open", "raised"}
    /\ proc' = "none" /\ data' = EmptyData
    /\ last' = Call("exit", <<>>, None, "")
    /\ UNCHANGED <<file, acked, ackedProg, torn, stores, otherThanCache>>

\* cache.get(key)
DoGet(key) ==
    /\ proc = "open"
    /\ last' = Call("get", key, Get(data, key), "")
    /\ UNCHANGED <<file, data, proc, acked, ackedProg, torn, stores, otherThanCache>>

\* cache.get_progress()
DoGetProgress ==
    /\ proc = "open"
    /\ LET r == GetProgress(data) IN last' = Call("get_progress", <<>>, Dict(r.d), r.exc)
    /\ UNCHANGED <<file, data, proc, acked, ackedProg, torn, stores, otherThanCache>>

\* the part every persisting call shares: _save on the new _data, the call
\* returning or the process being killed inside write_text
Persist(newData, outcome) ==
    /\ data' = IF outcome = "returned" THEN newData ELSE EmptyData
    /\ proc' = IF outcome = "returned" THEN "open" ELSE "none"
    /\ file' = Save(newData, outcome)
    /\ torn' = (torn \/ outcome \in {"killed_empty", "killed_prefix"})
    /\ stores' = IF outcome = "returned" THEN {newData} ELSE {data, newData}

\* cache.set(key, value): self._data[key] = value; self._save()
DoSet(key, value, outcome) ==
    /\ proc = "open"
    /\ LET newData == DictPut(data, key, Str(value)) IN
       /\ Persist(newData, outcome)
       /\ acked' = DictPut(acked, key, IF outcome = "returned" THEN Str(value) ELSE None)
    /\ last' = Call("set", key, None, IF outcome = "returned" THEN "" ELSE "killed")
    /\ UNCHANGED <<ackedProg, otherThanCache>>

\* cache.set_progress_entry(path, module_data):
\* progress = self._data.setdefault("__progress__", {}); progress[path] = module_data
\* raises TypeError before _save when the stored value is a str
DoSetProgressEntry(path, payload, outcome) ==
    /\ proc = "open"
    /\ LET progress == DictGet(SetDefaultProgress(data), PROGRESS_KEY) IN
       IF progress.t = "dict"
       THEN /\ Persist(DictPut(data, PROGRESS_KEY,
                               Dict([progress.d EXCEPT ![path] = payload])), outcome)
            /\ ackedProg' = [ackedProg EXCEPT ![path] =
                                IF outcome = "returned" THEN payload ELSE NoEntry]
            /\ last' = Call("set_progress_entry", <<path>>, None,
                            IF outcome = "returned" THEN "" ELSE "killed")
       ELSE /\ outcome = "returned"
            /\ last' = Call("set_progress_entry", <<path>>, None, "TypeError")
            /\ UNCHANGED <<file, data, proc, torn, stores, ackedProg>>
    /\ UNCHANGED <<acked, otherThanCache>>

\* cache.clear_progress(): self._data["__progress__"] = {}; self._save()
DoClearProgress(outcome) ==
    /\ proc = "open"
    /\ Persist(DictPut(data, PROGRESS_KEY, Dict(EmptyProgress)), outcome)
    /\ ackedProg' = EmptyProgress
    /\ last' = Call("clear_progress", <<>>, None,
                    IF outcome = "returned" THEN "" ELSE "killed")
    /\ UNCHANGED <<acked, otherThanCache>>

Next ==
    \/ Open
    \/ Exit
    \/ \E key \in Keys : DoGet(key)
    \/ DoGetProgress
    \/ \E key \in Keys, value \in Values, o \in SaveOutcomes : DoSet(key, value, o)
    \/ \E path \in Paths, payload \in Payloads, o \in SaveOutcomes :
          DoSetProgressEntry(path, payload, o)
    \/ \E o \in SaveOutcomes : DoClearProgress(o)

Spec == CacheInit /\ [][Next]_vars

-----------------------------------------------------------------------------
(* chunk_utils.py: the fallback tokenizer, _split_blocks, _split_long_block *)
(* and chunk_text, on texts of single characters                            *)

\* Bounds of the chunking model: lines per input text, largest token budget
MaxLines == 5
MaxBudget == 5

\* FIM_RE: r"<\|fim_(?:prefix|middle|suffix)\|>"
FimPatterns == {<<"<|fim_", name, "|>">> : name \in {"prefix", "middle", "suffix"}}
\* strip_fim_tokens(text)
StripFimTokens(t) == RemoveAll(t, FimPatterns)

\* _Simple.encode(text): the whitespace-separated words of the stripped text
Encode(t) == Split(StripFimTokens(t))

\* "\n".join(current).strip()
BlockOf(current) == Strip(Join(<<"\n">>, current))

\* blocks.append(b), with the final "[b for b in blocks if b]" applied at once
KeepBlock(b) == IF b = <<>> THEN <<>> ELSE <<b>>

\* _split_blocks(text): the loop over the lines
RECURSIVE SplitBlocksFrom(_, _, _)
SplitBlocksFrom(lines, current, in_code) ==
    IF lines = <<>>
    THEN (IF current # <<>> THEN KeepBlock(BlockOf(current)) ELSE <<>>)
    ELSE LET line == Head(lines)
             rest == Tail(lines)
         IN IF StartsWith(line, Fence)
            THEN IF in_code
                 THEN KeepBlock(BlockOf(Append(current, line)))
                      \o SplitBlocksFrom(rest, <<>>, FALSE)
                 ELSE (IF current # <<>> THEN KeepBlock(BlockOf(current)) ELSE <<>>)
                      \o SplitBlocksFrom(rest, <<line>>, TRUE)
            ELSE IF in_code
            THEN SplitBlocksFrom(rest, Append(current, line), TRUE)
            ELSE IF Strip(line) = <<>>
            THEN (IF current # <<>> THEN KeepBlock(BlockOf(current)) ELSE <<>>)
                 \o SplitBlocksFrom(rest, <<>>, FALSE)
            ELSE IF StartsWith(LStrip(line), <<"#">>)
            THEN (IF current # <<>> THEN KeepBlock(BlockOf(current)) ELSE <<>>)
                 \o KeepBlock(Strip(line))
                 \o SplitBlocksFrom(rest, <<>>, FALSE)
            ELSE SplitBlocksFrom(rest, Append(current, line), FALSE)
SplitBlocks(t) == SplitBlocksFrom(SplitLines(t), <<>>, FALSE)

Max(a, b) == IF a >= b THEN a ELSE b
Min(a, b) == IF a <= b THEN a ELSE b

\* [block[i : i + max_chars] for i in range(0, len(block), max_chars)]
RECURSIVE Pieces(_, _)
Pieces(block, max_chars) ==
    IF block = <<>> THEN <<>>
    ELSE <<Slice(block, 0, Min(max_chars, Len(block)))>>
         \o Pieces(Slice(block, Min(max_chars, Len(block)), Len(block)), max_chars)

\* _split_long_block(block, tokenizer, chunk_size_tokens)
SplitLongBlock(block, chunk_size_tokens) ==
    LET tokens == Encode(block) IN
    IF Len(tokens) <= chunk_size_tokens THEN <<block>>
    ELSE LET avg_chars == Max(Len(block) \div Len(tokens), 1)
             max_chars == Max(chunk_size_tokens * avg_chars, 1)
         IN Pieces(block, max_chars)

\* chunk_text: the loop over the blocks, then the final flush
RECURSIVE PackBlocks(_, _, _, _)
PackBlocks(blocks, current, token_count, chunk_size_tokens) ==
    IF blocks = <<>>
    THEN (IF current # <<>> THEN <<Join(<<"\n", "\n">>, current)>> ELSE <<>>)
    ELSE LET block == Head(blocks)
             block_tokens == Len(Encode(block))
             flush == token_count + block_tokens > chunk_size_tokens /\ current # <<>>
             flushed == IF flush THEN <<Join(<<"\n", "\n">>, current)>> ELSE <<>>
             cur == IF flush THEN <<>> ELSE current
             cnt == IF flush THEN 0 ELSE token_count
         IN IF block_tokens > chunk_size_tokens
            THEN flushed \o SplitLongBlock(block, chunk_size_tokens)
                 \o PackBlocks(Tail(blocks), cur, cnt, chunk_size_tokens)
            ELSE flushed
                 \o PackBlocks(Tail(blocks), Append(cur, block), cnt + block_tokens,
                               chunk_size_tokens)

\* chunk_text(text, tokenizer, chunk_size_tokens) with the fallback tokenizer
ChunkText(t, chunk_size_tokens) ==
    PackBlocks(SplitBlocks(t), <<>>, 0, chunk_size_tokens)

-----------------------------------------------------------------------------
(* manual_utils.py: _summarize_manual on a text that is chunked (chunking   *)
(* "manual", or "auto" with the text over the limits), post_chunk_hook None, *)
(* called twice over one cache file as in test_cached_chunks_reused         *)

\* Bound of the map stage: the number of chunks _split_text returned
NumChunks == 2

MAX_TOKENS == 2000
MAX_CHARS == 6000

\* the source argument
SOURCE == <<"src">>
\* the chunk texts: each symbol stands for one paragraph too long to share a chunk
ChunkTexts == {<<"aaa">>, <<"bbb">>}

\* what a summarizer may return: clean text, text with a bullet line, and the
\* text sanitize_summary special-cases
Responses ==
    { <<"alpha">>,
      <<"-", " ", "item", "\n", "beta">>,
      Phrase(<<"project", "summary">>) }
\* a response of one word of HugeChars characters, more than the 6000 characters
\* the merge input may have
HugeChars == 7000
HugeWord == "<huge word>"
HugeResponses == {<<HugeWord>>}
\* one call of client.summarize: it returns a response or raises
Outcomes ==
    {[ok |-> TRUE, resp |-> r] : r \in Responses} \cup {[ok |-> FALSE, resp |-> <<>>]}
\* the same with a response that takes the merge input over the limits
OutcomesWithHuge == Outcomes \cup {[ok |-> TRUE, resp |-> r] : r \in HugeResponses}

\* _count_tokens(text): len(TOKENIZER.encode(text)), the fallback tokenizer
CountTokens(t) == Len(Split(t))
\* len(text): the characters of the symbols of the text
CharLen(sym) == IF sym = HugeWord THEN HugeChars ELSE Len(sym)
RECURSIVE Chars(_)
Chars(t) == IF t = <<>> THEN 0 ELSE CharLen(Head(t)) + Chars(Tail(t))
\* not (tokens > 2000 or chars > 6000)
WithinLimits(t) == CountTokens(t) <= MAX_TOKENS /\ Chars(t) <= MAX_CHARS

\* re.split(r"\n{2,}", s)
RECURSIVE DropNewlines(_)
DropNewlines(t) == IF t # <<>> /\ Head(t) = "\n" THEN DropNewlines(Tail(t)) ELSE t
RECURSIVE SplitParagraphsFrom(_, _)
SplitParagraphsFrom(t, cur) ==
    IF t = <<>> THEN <<cur>>
    ELSE IF StartsWith(t, <<"\n", "\n">>)
    THEN <<cur>> \o SplitParagraphsFrom(DropNewlines(t), <<>>)
    ELSE SplitParagraphsFrom(Tail(t), Append(cur, Head(t)))

\* [piece.strip() for piece in pieces]
StripAll(pieces) == [i \in 1..Len(pieces) |-> Strip(pieces[i])]

\* _split_text: the loop over the paragraphs, then the final flush.  No text
\* of this model has more than max_tokens tokens, so chunk_text never reaches
\* _split_long_block here and the character counts of ChunkText play no part.
RECURSIVE SplitTextFrom(_, _, _, _, _, _)
SplitTextFrom(paragraphs, current, token_count, char_count, max_tokens, max_chars) ==
    LET flush == IF current # <<>> THEN <<Strip(Join(<<"\n", "\n">>, current))>> ELSE <<>>
    IN
    IF paragraphs = <<>> THEN flush
    ELSE LET para == Strip(Head(paragraphs))
             rest == Tail(paragraphs)
             ptokens == CountTokens(para)
             pchars == Chars(para)
             sep_tokens == Max(CountTokens(<<"\n", "\n">>), 1)
             sep_chars == 2
             extra_tokens == IF current = <<>> THEN ptokens ELSE ptokens + sep_tokens
             extra_chars == IF current = <<>> THEN pchars ELSE pchars + sep_chars
         IN IF para = <<>>
            THEN SplitTextFrom(rest, current, token_count, char_count, max_tokens, max_chars)
            ELSE IF ptokens > max_tokens \/ pchars > max_chars
            THEN flush \o StripAll(ChunkText(para, max_tokens))
                 \o SplitTextFrom(rest, <<>>, 0, 0, max_tokens, max_chars)
            ELSE IF \/ token_count + extra_tokens > max_tokens
                    \/ char_count + extra_chars > max_chars
            THEN flush \o SplitTextFrom(rest, <<para>>, ptokens, pchars, max_tokens, max_chars)
            ELSE SplitTextFrom(rest, Append(current, para), token_count + extra_tokens,
                               char_count + extra_chars, max_tokens, max_chars)

\* _split_text(text, max_tokens, max_chars)
SplitText(t, max_tokens, max_chars) ==
    SplitTextFrom(SplitParagraphsFrom(Strip(t), <<>>), <<>>, 0, 0, max_tokens, max_chars)

\* ResponseCache.make_key(f"{source}:chunk{idx}", part)
ChunkKey(ps, idx) == MakeKey(SOURCE \o <<":", "chunk" \o ToString(idx)>>, ps[idx])
\* ResponseCache.make_key(f"{source}:final", merge_input)
FinalKey(merge_input) == MakeKey(SOURCE \o <<":", "final">>, merge_input)
\* ResponseCache.make_key(f"{source}:merge{iteration}:chunk{idx}", piece)
MergeKey(iteration, idx, piece) ==
    MakeKey(SOURCE \o <<":", "merge" \o ToString(iteration), ":", "chunk" \o ToString(idx)>>,
            piece)

\* a future: "unsubmitted" (cache hit, no future), "pending", "done" / "raised"
\* (finished, not yet yielded by as_completed), "stored" / "dropped" (handled)
Future(st, resp) == [st |-> st, resp |-> resp]

\* partials[idx] = value on a dict kept as (idx, text) pairs in insertion order
PartialsPut(ps, idx, value) ==
    IF \E j \in 1..Len(ps) : ps[j].idx = idx
    THEN [j \in 1..Len(ps) |-> IF ps[j].idx = idx THEN [idx |-> idx, text |-> value]
                                                   ELSE ps[j]]
    ELSE Append(ps, [idx |-> idx, text |-> value])

\* lines 120-143: the loop over the chunks before dispatch; cached responses are
\* sanitized and become partials, the others become work
RECURSIVE CachedPartials(_, _, _)
CachedPartials(d, ps, idx) ==
    IF idx > Len(ps) THEN <<>>
    ELSE LET cached == Get(d, ChunkKey(ps, idx)) IN
         (IF cached # None
          THEN <<[idx |-> idx, text |-> SanitizeSummary(cached.s)]>>
          ELSE <<>>) \o CachedPartials(d, ps, idx + 1)

\* [partials[i] for i in sorted(partials)]
RECURSIVE SortedPartialsFrom(_, _)
SortedPartialsFrom(ps, idxs) ==
    IF idxs = {} THEN <<>>
    ELSE LET m == CHOOSE i \in idxs : \A j \in idxs : i <= j
             e == CHOOSE j \in 1..Len(ps) : ps[j].idx = m
         IN <<ps[e].text>> \o SortedPartialsFrom(ps, idxs \ {m})
InsertionOrderPartials(ps) == [j \in 1..Len(ps) |-> ps[j].text]
SortedPartials(ps) == SortedPartialsFrom(ps, {ps[j].idx : j \in 1..Len(ps)})

\* merge_input = "\n\n".join(partials[i] for i in sorted(partials))
MergeInput(ps) == Join(<<"\n", "\n">>, SortedPartials(ps))

\* lines 158-165: future.result() raised; "except Exception: ... continue"
\* keeps the loop going, the exception does not leave _summarize_manual
ChunkFailurePropagates == "raised"
OnChunkFailure == "map"

REQUIRED_SECTIONS ==
    << <<"Overview">>, Phrase(<<"Purpose", "&", "Problem", "Solving">>),
       Phrase(<<"How", "to", "Run">>), <<"Inputs">>, <<"Outputs">>,
       Phrase(<<"System", "Requirements">>), <<"Examples">> >>

\* explaincode.infer_sections(text) for a non-empty text, rendered by
\* "\n".join(f"{k}: {v}" for k, v in sections.items())
InferSections(t) ==
    Join(<<"\n">>,
         [i \in 1..Len(REQUIRED_SECTIONS) |->
             REQUIRED_SECTIONS[i] \o <<":", " ">> \o
             (IF i = 1 THEN Strip(t)
              ELSE REQUIRED_SECTIONS[i] \o <<" ", "details", " ", "(inferred)">>)])

\* the text argument: the chunks are its paragraphs
ManualText(ps) == Join(<<"\n", "\n">>, ps)

\* lines 175-177: "if not partials" returns the rendered infer_sections(text)
EmptyStageResult(t) == <<>>
NoPartialsResult(t) == InferSections(t)

\* Bound of the hierarchical merge: the merge passes followed in one run
MaxPasses == 2

\* what one call of _summarize_manual returned, with what it did on the way:
\* mergeInput is the merge_input of line 187, finalInput the merge_input the
\* loop left for the final merge, passes the value of iteration
Result(kind, ret, merge_input, ncalls, failed) ==
    [kind |-> kind, ret |-> ret,
     mergeInput |-> IF partials = <<>> THEN <<>> ELSE MergeInput(partials),
     finalInput |-> merge_input, passes |-> merge.iteration,
     ncalls |-> ncalls, failed |-> failed]

ManualInit ==
    /\ parts \in [1..NumChunks -> ChunkTexts]
    /\ run = 0 /\ mpc = "idle" /\ partials = <<>>
    /\ futures = <<>> /\ completed = <<>> /\ calls = <<>> /\ results = <<>>
    /\ merge = NoMerge /\ writers = {}
    /\ CacheIdle /\ ChunkIdle /\ KeyIdle /\ SumIdle /\ ExtIdle

cacheHistory == <<last, acked, ackedProg, torn, stores>>

\* _summarize_manual is called (the second time on a new ResponseCache over the
\* same file): lines 117-155, up to the submission of the work
MStart ==
    /\ (run = 0 /\ mpc = "idle") \/ (run = 1 /\ mpc = "done")
    /\ run' = run + 1
    /\ LET c == Construct(file)
           miss(i) == Get(c.d, ChunkKey(parts, i)) = None
       IN /\ proc' = "open" /\ data' = c.d
          /\ partials' = CachedPartials(c.d, parts, 1)
          /\ futures' = [i \in 1..Len(parts) |->
                            Future(IF miss(i) THEN "pending" ELSE "unsubmitted", <<>>)]
          /\ mpc' = IF \E i \in 1..Len(parts) : miss(i) THEN "map" ELSE "reduce"
    /\ completed' = <<>> /\ calls' = <<>> /\ merge' = NoMerge
    /\ UNCHANGED <<file, parts, results, writers, cacheHistory, chunkVars,
                   keyVars, sumVars, extVars>>

\* a worker thread runs client.summarize(part, "docstring", CHUNK_SYSTEM_PROMPT)
\* for chunk idx: the call returns or raises, the future completes
WorkerRun(idx, o) ==
    /\ mpc = "map" /\ futures[idx].st = "pending"
    /\ futures' = [futures EXCEPT ![idx] = Future(IF o.ok THEN "done" ELSE "raised", o.resp)]
    /\ completed' = Append(completed, idx)
    /\ calls' = Append(calls, [prompt |-> "chunk", text |-> parts[idx], ok |-> o.ok])
    /\ UNCHANGED <<file, data, proc, parts, run, mpc, partials, merge, results,
                   writers, cacheHistory, chunkVars,
                   keyVars, sumVars, extVars>>

\* the futures as_completed has not yielded yet, in completion order
Unhandled == SelectSeq(completed, LAMBDA i : futures[i].st \in {"done", "raised"})

\* the calling thread takes the next future from as_completed: lines 156-173
Collect ==
    /\ mpc = "map" /\ Unhandled # <<>>
    /\ LET idx == Head(Unhandled)
           f == futures[idx]
           after == [futures EXCEPT ![idx].st = IF f.st = "done" THEN "stored" ELSE "dropped"]
           finished == \A i \in 1..Len(parts) : after[i].st \notin {"pending", "done", "raised"}
       IN /\ futures' = after
          /\ IF f.st = "raised"
             THEN /\ mpc' = IF OnChunkFailure = "map" /\ finished THEN "reduce"
                            ELSE OnChunkFailure
                  /\ UNCHANGED <<data, file, partials>>
             ELSE /\ data' = DictPut(data, ChunkKey(parts, idx), Str(f.resp))
                  /\ file' = Save(data', "returned")
                  /\ partials' = PartialsPut(partials, idx, f.resp)
                  /\ mpc' = IF finished THEN "reduce" ELSE "map"
    /\ UNCHANGED <<proc, parts, run, completed, calls, merge, results,
                   writers, cacheHistory, chunkVars,
                   keyVars, sumVars, extVars>>

\* merge_input as the while loop of lines 191-237 sees it
CurrentMergeInput == IF merge.iteration = 0 THEN MergeInput(partials) ELSE merge.input

\* the loop condition of line 191 holds and a pass begins: lines 192-205
MPassStart ==
    /\ mpc = "reduce" /\ partials # <<>>
    /\ ~WithinLimits(CurrentMergeInput)
    /\ merge.iteration < MaxPasses
    /\ LET sub_parts == SplitText(CurrentMergeInput, MAX_TOKENS, MAX_CHARS) IN
       /\ merge' = [iteration |-> merge.iteration + 1, input |-> CurrentMergeInput,
                    sub_parts |-> sub_parts, new_partials |-> <<>>, next |-> 1]
       /\ mpc' = IF sub_parts = <<>> THEN "final" ELSE "merge"
    /\ UNCHANGED <<file, data, proc, parts, run, partials, futures, completed, calls,
                   results, writers, cacheHistory, chunkVars,
                   keyVars, sumVars, extVars>>

\* what client.summarize may do with a piece of a merge pass: return the
\* piece itself (an output never shorter than the input), return a short
\* text, or raise
PassOutcomes == {"echo", "short", "raise"}
PassResponse(kind, piece) == IF kind = "echo" THEN piece ELSE <<"alpha">>

\* one piece of a merge pass: lines 206-232, and lines 233-237 after the last
MPassPiece(kind) ==
    /\ mpc = "merge" /\ merge.next <= Len(merge.sub_parts)
    /\ LET idx == merge.next
           piece == merge.sub_parts[idx]
           key == MergeKey(merge.iteration, idx, piece)
           cached == Get(data, key)
           ok == kind # "raise"
           resp == IF cached # None THEN SanitizeSummary(cached.s)
                   ELSE PassResponse(kind, piece)
           new_partials == IF cached # None \/ ok THEN Append(merge.new_partials, resp)
                           ELSE merge.new_partials
           lastPiece == idx = Len(merge.sub_parts)
       IN /\ cached # None => kind = "raise"
          /\ calls' = IF cached # None THEN calls
                      ELSE Append(calls, [prompt |-> "merge", text |-> piece, ok |-> ok])
          /\ IF cached = None /\ ok
             THEN /\ data' = DictPut(data, key, Str(resp))
                  /\ file' = Save(data', "returned")
             ELSE UNCHANGED <<data, file>>
          /\ merge' = [merge EXCEPT
                          !.next = idx + 1,
                          !.new_partials = new_partials,
                          !.input = IF lastPiece /\ new_partials # <<>>
                                    THEN Join(<<"\n", "\n">>, new_partials) ELSE @]
          /\ mpc' = IF ~lastPiece THEN "merge"
                    ELSE IF new_partials = <<>> THEN "final" ELSE "reduce"
    /\ UNCHANGED <<proc, parts, run, partials, futures, completed, results,
                   writers, cacheHistory, chunkVars,
                   keyVars, sumVars, extVars>>

\* lines 175-177 and 238-252: no partial gives the heuristic result; otherwise,
\* the loop left, the final merge, from the cache or by one call of
\* client.summarize that returns or raises
MReduce(o) ==
    /\ \/ mpc = "reduce" /\ (partials = <<>> \/ WithinLimits(CurrentMergeInput))
       \/ mpc = "final"
    /\ mpc' = "done"
    /\ LET mapFailed == \E i \in 1..Len(calls) : ~calls[i].ok IN
       IF partials = <<>>
       THEN /\ o = [ok |-> FALSE, resp |-> <<>>]
            /\ results' = Append(results, Result("heuristic", NoPartialsResult(ManualText(parts)),
                                                 <<>>, Len(calls), mapFailed))
            /\ UNCHANGED <<data, file, calls>>
       ELSE LET merge_input == CurrentMergeInput
                key == FinalKey(merge_input)
                cached == Get(data, key)
                call == [prompt |-> "merge", text |-> merge_input, ok |-> o.ok]
            IN IF cached # None
               THEN /\ o = [ok |-> FALSE, resp |-> <<>>]
                    /\ results' = Append(results,
                           Result("merged", SanitizeSummary(SanitizeSummary(cached.s)),
                                  merge_input, Len(calls), mapFailed))
                    /\ UNCHANGED <<data, file, calls>>
               ELSE IF o.ok
               THEN /\ data' = DictPut(data, key, Str(o.resp))
                    /\ file' = Save(data', "returned")
                    /\ calls' = Append(calls, call)
                    /\ results' = Append(results,
                           Result("merged", SanitizeSummary(o.resp),
                                  merge_input, Len(calls'), mapFailed))
               ELSE /\ calls' = Append(calls, call)
                    /\ results' = Append(results,
                           Result("unmerged", merge_input, merge_input, Len(calls'), TRUE))
                    /\ UNCHANGED <<data, file>>
    /\ UNCHANGED <<proc, parts, run, partials, futures, completed, merge,
                   writers, cacheHistory, chunkVars,
                   keyVars, sumVars, extVars>>

\* two runs over one cache file, with responses that keep the merge input
\* within the limits: the while loop of line 191 is never entered
ManualNext ==
    \/ MStart
    \/ \E idx \in 1..NumChunks, o \in Outcomes : WorkerRun(idx, o)
    \/ Collect
    \/ \E o \in Outcomes : MReduce(o)

SpecManual == ManualInit /\ [][ManualNext]_vars

\* one run on an empty cache, with responses of any size
FirstRun == run = 0 /\ MStart
MergeNext ==
    \/ FirstRun
    \/ \E idx \in 1..NumChunks, o \in OutcomesWithHuge : WorkerRun(idx, o)
    \/ Collect
    \/ MPassStart
    \/ \E kind \in PassOutcomes : MPassPiece(kind)
    \/ \E o \in Outcomes : MReduce(o)

SpecMerge == ManualInit /\ [][MergeNext]_vars

\* The map stage thread by thread.  The pool threads run client.summarize
\* only (lines 148-153); cache.set(key, resp) of line 166 is executed by the
\* thread that called _summarize_manual, inside its as_completed loop.
WorkerThread(idx) == "worker" \o ToString(idx)
StoringThread(idx) == "main"

\* every future has been handled by the as_completed loop
MapFinished(fs) ==
    \A i \in 1..Len(fs) : fs[i].st \notin {"pending", "done", "raised", "setting"}

\* line 166, first half of ResponseCache.set: self._data[key] = value.  The
\* calling thread takes the futures in the order as_completed yields them.
SetBegin(idx) ==
    /\ mpc = "map" /\ futures[idx].st = "done"
    /\ LET t == StoringThread(idx) IN
       /\ t \notin writers
       /\ t = "main" => idx = Head(Unhandled)
       /\ writers' = writers \cup {t}
    /\ futures' = [futures EXCEPT ![idx].st = "setting"]
    /\ data' = DictPut(data, ChunkKey(parts, idx), Str(futures[idx].resp))
    /\ UNCHANGED <<file, proc, parts, run, mpc, partials, completed, calls, merge, results,
                   cacheHistory, chunkVars, keyVars, sumVars, extVars>>

\* second half of ResponseCache.set: self._save() rewrites the file; set
\* returns and line 173 stores the partial
SetEnd(idx) ==
    /\ mpc = "map" /\ futures[idx].st = "setting"
    /\ file' = Save(data, "returned")
    /\ writers' = writers \ {StoringThread(idx)}
    /\ partials' = PartialsPut(partials, idx, futures[idx].resp)
    /\ futures' = [futures EXCEPT ![idx].st = "stored"]
    /\ mpc' = IF MapFinished(futures') THEN "reduce" ELSE "map"
    /\ UNCHANGED <<data, proc, parts, run, completed, calls, merge, results,
                   cacheHistory, chunkVars, keyVars, sumVars, extVars>>

\* lines 158-165: the future as_completed yields next has raised
DropRaised ==
    /\ mpc = "map" /\ "main" \notin writers
    /\ Unhandled # <<>> /\ futures[Head(Unhandled)].st = "raised"
    /\ futures' = [futures EXCEPT ![Head(Unhandled)].st = "dropped"]
    /\ mpc' = IF OnChunkFailure = "map" /\ MapFinished(futures') THEN "reduce"
              ELSE OnChunkFailure
    /\ UNCHANGED <<file, data, proc, parts, run, partials, completed, calls, merge,
                   results, writers, cacheHistory, chunkVars, keyVars, sumVars, extVars>>

\* one run on an empty cache, with ResponseCache.set in two steps
ThreadNext ==
    \/ FirstRun
    \/ \E idx \in 1..NumChunks, o \in Outcomes : WorkerRun(idx, o)
    \/ \E idx \in 1..NumChunks : SetBegin(idx)
    \/ \E idx \in 1..NumChunks : SetEnd(idx)
    \/ DropRaised
    \/ \E o \in Outcomes : MReduce(o)

SpecThreads == ManualInit /\ [][ThreadNext]_vars

-----------------------------------------------------------------------------
(* summarize_utils.py: summarize_chunked and its closure _merge_recursive,  *)
(* as a stack of frames; texts are sequences of single characters           *)

\* len(tokenizer.encode(SYSTEM_PROMPT)), len(tokenizer.encode(template.format(text="")))
\* for the "module" template, and len(tokenizer.encode(instructions))
SYSTEM_PROMPT_TOKENS == 42
MODULE_TEMPLATE_TOKENS == 67
INSTRUCTION_TOKENS == 35

\* Bounds of this model: the tokens the context leaves for the text (small
\* and large), the words of the input text, the chunk_token_budget values,
\* the words of a long summary, the recursion limit of the interpreter (in
\* frames), and the summarizer failures followed in one call
SmallSlack == 3
LargeSlack == 40
FewWords == 5
ManyWords == 42
SmallChunkBudget == 2
LargeChunkBudget == 20
LongWords == 10
MaxDepth == 8
MaxFailures == 1

\* n words w separated by sep
Words(w, n, sep) == Join(sep, [i \in 1..n |-> <<w>>])

\* the template of a prompt type: "{text}" for "docstring", else the module template
TemplateTokens(prompt_type) == IF prompt_type = "docstring" THEN 0 ELSE MODULE_TEMPLATE_TOKENS
\* overhead_tokens and available_tokens of a call with this prompt type
OverheadTokens(prompt_type) == SYSTEM_PROMPT_TOKENS + TemplateTokens(prompt_type)
AvailableTokens(prompt_type) ==
    Max(1, sargs.max_context_tokens - OverheadTokens(prompt_type))
\* instructions: a text of INSTRUCTION_TOKENS words that ends with "\n\n"
Instructions == Words("i", INSTRUCTION_TOKENS, <<" ">>) \o <<"\n", "\n">>
\* merge_budget = max(1, available_tokens - instr_tokens)
MergeBudget(prompt_type) ==
    Max(1, AvailableTokens(prompt_type) - Len(Encode(Instructions)))
\* merge_text = "\n".join(f"- {p}" for p in items)
MergeText(items) == Join(<<"\n">>, [i \in 1..Len(items) |-> <<"-", " ">> \o items[i]])
\* prompt = instructions + merge_text
MergePrompt(items) == Instructions \o MergeText(items)
\* bullet = f"- {p}\n"
Bullet(item) == <<"-", " ">> \o item \o <<"\n">>

\* the grouping loop of _merge_recursive
RECURSIVE GroupsFrom(_, _, _, _)
GroupsFrom(items, current, current_tokens, merge_budget) ==
    IF items = <<>> THEN (IF current # <<>> THEN <<current>> ELSE <<>>)
    ELSE LET item == Head(items)
             b_tokens == Len(Encode(Bullet(item)))
         IN IF current # <<>> /\ current_tokens + b_tokens > merge_budget
            THEN <<current>> \o GroupsFrom(Tail(items), <<item>>, b_tokens, merge_budget)
            ELSE GroupsFrom(Tail(items), Append(current, item),
                            current_tokens + b_tokens, merge_budget)

\* the summarizer stubs: "const" answers one word; "drop" answers its input
\* without the last word; "long" answers LongWords words to a "module"
\* prompt and one word to any other, like the stubs of test_docgenerator;
\* "bullet" answers a bullet line and a text line to a "module" prompt
Stubs == {"const", "drop", "long", "bullet"}
StubResponse(stub, txt, prompt_type) ==
    CASE stub = "const" -> <<"s">>
      [] stub = "drop" ->
            LET tokens == Encode(txt) IN
            IF tokens = <<>> THEN <<>>
            ELSE Join(<<" ">>, SubSeq(tokens, 1, Len(tokens) - 1))
      [] stub = "bullet" ->
            IF prompt_type = "module" THEN <<"-", " ", "item", "\n", "beta">> ELSE <<"s">>
      [] OTHER -> IF prompt_type = "module" THEN Words("l", LongWords, <<" ">>) ELSE <<"s">>

\* a frame: f is "sc" for summarize_chunked (items are its parts, acc its
\* partials) and "mr" for _merge_recursive (acc is its merged list); st is the
\* position in the function; the "mr" frame carries the key_prefix and prompt
\* type of the summarize_chunked call it was defined in
Frame(f, key_prefix, txt, prompt_type, st, items, next, acc, depth, groups) ==
    [f |-> f, key_prefix |-> key_prefix, text |-> txt, prompt_type |-> prompt_type,
     st |-> st, items |-> items, next |-> next, acc |-> acc, depth |-> depth,
     groups |-> groups]
SCFrame(key_prefix, txt, prompt_type) ==
    Frame("sc", key_prefix, txt, prompt_type, "start", <<>>, 1, <<>>, 0, <<>>)
MRFrame(owner, items, depth) ==
    Frame("mr", owner.key_prefix, <<>>, owner.prompt_type, "start", items, 1, <<>>,
          depth, <<>>)

Top == stack[Len(stack)]
Below == SubSeq(stack, 1, Len(stack) - 1)
Value(v) == [kind |-> "value", v |-> v]
\* an exception on its way up: raised by client.summarize, or RecursionError
Raised(cause) == [kind |-> "exc", v |-> <<cause>>]

\* the merge input of the innermost _merge_recursive frame of a stack
RECURSIVE EnclosingMerge(_)
EnclosingMerge(frames) ==
    IF frames = <<>> THEN <<>>
    ELSE IF frames[Len(frames)].f = "mr" THEN <<frames[Len(frames)]>>
    ELSE EnclosingMerge(SubSeq(frames, 1, Len(frames) - 1))

\* a call of summarize_chunked or _merge_recursive from the frames in base:
\* the new frame, or RecursionError when the interpreter has no frame left
Enter(base, frame) ==
    IF Len(base) < MaxDepth
    THEN /\ stack' = Append(base, frame)
         /\ pending' = NoPending
         /\ shist' = IF frame.f = "mr" /\ EnclosingMerge(base) # <<>>
                     THEN [shist EXCEPT !.nested = Append(@,
                             [caller |-> Len(Encode(MergeText(EnclosingMerge(base)[1].items))),
                              callee |-> Len(Encode(MergeText(frame.items)))])]
                     ELSE shist
    ELSE stack' = base /\ pending' = Raised("RecursionError") /\ UNCHANGED shist

\* _summarize(client, cache, key, text, prompt_type): the cached value, or one
\* call of client.summarize that returns (ok) or raises; the frame ends with it
SummarizeStoringFailure(key, txt, prompt_type, ok) ==
    LET cached == Get(data, key) IN
    IF cached # None
    THEN /\ ok
         /\ UNCHANGED <<data, file, scalls, shist>>
    ELSE /\ ~ok => shist.failures < MaxFailures
         /\ scalls' = Append(scalls,
                [key |-> key, text |-> txt, prompt_type |-> prompt_type, ok |-> ok,
                 tokens |-> Len(Encode(txt)),
                 allowed |-> sargs.max_context_tokens - OverheadTokens(prompt_type)])
         /\ shist' = [shist EXCEPT !.failures = IF ok THEN @ ELSE @ + 1]
         /\ IF ok
            THEN /\ data' = DictPut(data, key, Str(StubResponse(sargs.stub, txt, prompt_type)))
                 /\ file' = Save(data', "returned")
            ELSE /\ data' = DictPut(data, key, Str(<<>>))
                 /\ file' = Save(data', "returned")
Summarize(key, txt, prompt_type, ok) ==
    LET cached == Get(data, key) IN
    IF cached # None
    THEN /\ ok
         /\ UNCHANGED <<data, file, scalls, shist>>
    ELSE /\ ~ok => shist.failures < MaxFailures
         /\ scalls' = Append(scalls,
                [key |-> key, text |-> txt, prompt_type |-> prompt_type, ok |-> ok,
                 tokens |-> Len(Encode(txt)),
                 allowed |-> sargs.max_context_tokens - OverheadTokens(prompt_type)])
         /\ shist' = [shist EXCEPT !.failures = IF ok THEN @ ELSE @ + 1]
         /\ IF ok
            THEN /\ data' = DictPut(data, key, Str(StubResponse(sargs.stub, txt, prompt_type)))
                 /\ file' = Save(data', "returned")
            ELSE UNCHANGED <<data, file>>
\* what that _summarize returned
Summarized(key, txt, prompt_type) ==
    IF Get(data, key) # None THEN Get(data, key).s
    ELSE StubResponse(sargs.stub, txt, prompt_type)

sumRest == <<proc, last, acked, ackedProg, torn, stores, manualVars, chunkVars, keyVars,
            extVars>>

\* the short input texts: words in one paragraph, words in paragraphs of
\* their own, and short words followed by a long one
SumTexts ==
    {Words("w", FewWords, <<" ">>), Words("w", FewWords, <<"\n", "\n">>),
     Words("w", 3, <<" ">>) \o <<" ">> \o [i \in 1..6 |-> "w"]}

\* the calls followed: a short text in a context that leaves SmallSlack
\* tokens, and a text of ManyWords words in one that leaves LargeSlack
SumArgs ==
    [text : SumTexts, prompt_type : {"module"}, key_prefix : {<<"k">>},
     max_context_tokens : {OverheadTokens("module") + SmallSlack},
     chunk_token_budget : {SmallChunkBudget, LargeChunkBudget},
     stub : Stubs]
    \cup
    [text : {Words("w", ManyWords, <<" ">>)}, prompt_type : {"module"},
     key_prefix : {<<"k">>},
     max_context_tokens : {OverheadTokens("module") + LargeSlack},
     chunk_token_budget : {LargeChunkBudget},
     stub : Stubs]

\* summarize_chunked(client, cache, key_prefix, text, prompt_type, ...) has
\* just been called on an empty cache
SumInit ==
    /\ sargs \in SumArgs
    /\ stack = <<SCFrame(sargs.key_prefix, sargs.text, sargs.prompt_type)>>
    /\ pending = NoPending /\ scalls = <<>> /\ shist = NoHistory
    /\ CacheIdle /\ ManualIdle /\ ChunkIdle /\ KeyIdle /\ ExtIdle

Running(f, st) == stack # <<>> /\ pending = NoPending /\ Top.f = f /\ Top.st = st

\* lines 48-52: the text fits, one _summarize whose result is returned
SCDirect(ok) ==
    /\ Running("sc", "start")
    /\ Len(Encode(Top.text)) <= AvailableTokens(Top.prompt_type)
    /\ LET key == MakeKey(Top.key_prefix, Top.text) IN
       /\ Summarize(key, Top.text, Top.prompt_type, ok)
       /\ pending' = IF ok THEN Value(Summarized(key, Top.text, Top.prompt_type)) ELSE Raised("summarizer")
    /\ stack' = Below
    /\ UNCHANGED <<sargs, sumRest>>

\* lines 54-56: the text does not fit and is chunked
SCChunk ==
    /\ Running("sc", "start")
    /\ Len(Encode(Top.text)) > AvailableTokens(Top.prompt_type)
    /\ LET chunk_size_tokens ==
               Min(sargs.chunk_token_budget, AvailableTokens(Top.prompt_type))
       IN stack' = Append(Below, [Top EXCEPT !.st = "parts", !.next = 1,
                                             !.items = ChunkText(Top.text, chunk_size_tokens)])
    /\ UNCHANGED <<sargs, pending, scalls, shist, data, file, sumRest>>

\* lines 67-87: one part; a failure is dropped; no partial at the end
\* returns sanitize_summary("")
SCPart(ok) ==
    /\ Running("sc", "parts")
    /\ LET part == Top.items[Top.next]
           key == MakeKey(Top.key_prefix \o <<":", "part" \o ToString(Top.next - 1)>>, part)
           partials_ == IF ok THEN Append(Top.acc, Summarized(key, part, Top.prompt_type))
                        ELSE Top.acc
           lastPart == Top.next = Len(Top.items)
       IN /\ Summarize(key, part, Top.prompt_type, ok)
          /\ IF lastPart /\ partials_ = <<>>
             THEN stack' = Below /\ pending' = Value(SanitizeSummary(<<>>))
             ELSE /\ stack' = Append(Below, [Top EXCEPT !.acc = partials_, !.next = @ + 1,
                                                !.st = IF lastPart THEN "merge" ELSE "parts"])
                  /\ pending' = NoPending
    /\ UNCHANGED <<sargs, sumRest>>

\* lines 146-147: final_summary = _merge_recursive(partials)
SCMerge ==
    /\ Running("sc", "merge")
    /\ Enter(stack, MRFrame(Top, Top.acc, 0))
    /\ UNCHANGED <<sargs, scalls, data, file, sumRest>>

MergeFits(frame) ==
    Len(Encode(MergePrompt(frame.items))) <= AvailableTokens(frame.prompt_type)
\* f"{key_prefix}:merge{depth}"
DepthKey(frame) == frame.key_prefix \o <<":", "merge" \o ToString(frame.depth)>>

\* lines 100-111: the prompt fits, one _summarize with prompt type "docstring"
MRCall(ok) ==
    /\ Running("mr", "start")
    /\ MergeFits(Top)
    /\ LET prompt == MergePrompt(Top.items)
           key == MakeKey(DepthKey(Top), prompt)
       IN /\ Summarize(key, prompt, "docstring", ok)
          /\ pending' = IF ok THEN Value(Summarized(key, prompt, "docstring")) ELSE Raised("summarizer")
    /\ stack' = Below
    /\ UNCHANGED <<sargs, sumRest>>

\* lines 112-124: one item that does not fit goes back through summarize_chunked
MRSolo ==
    /\ Running("mr", "start")
    /\ ~MergeFits(Top) /\ Len(Top.items) = 1
    /\ LET single == Top.items[1]
           key == MakeKey(DepthKey(Top) \o <<":", "solo">>, single)
       IN Enter(Append(Below, [Top EXCEPT !.st = "solo"]), SCFrame(key, single, "docstring"))
    /\ UNCHANGED <<sargs, scalls, data, file, sumRest>>

\* lines 125-143: the items are grouped and the first group is merged
MRGroup ==
    /\ Running("mr", "start")
    /\ ~MergeFits(Top) /\ Len(Top.items) > 1
    /\ LET groups == GroupsFrom(Top.items, <<>>, 0, MergeBudget(Top.prompt_type))
       IN Enter(Append(Below, [Top EXCEPT !.st = "groups", !.groups = groups, !.next = 1]),
                MRFrame(Top, groups[1], Top.depth + 1))
    /\ UNCHANGED <<sargs, scalls, data, file, sumRest>>

\* a call returned a value to the frame that made it: line 151 for
\* summarize_chunked, lines 115 and 144 (return), and lines 142-144 (the
\* next group, or the merge of the merged list) for _merge_recursive
Deliver ==
    /\ stack # <<>> /\ pending.kind = "value"
    /\ IF Top.f = "sc"
       THEN stack' = Below /\ pending' = Value(SanitizeSummary(pending.v)) /\ UNCHANGED shist
       ELSE IF Top.st \in {"solo", "final"}
       THEN stack' = Below /\ pending' = pending /\ UNCHANGED shist
       ELSE LET merged == Append(Top.acc, pending.v) IN
            IF Top.next < Len(Top.groups)
            THEN Enter(Append(Below, [Top EXCEPT !.acc = merged, !.next = @ + 1]),
                       MRFrame(Top, Top.groups[Top.next + 1], Top.depth + 1))
            ELSE Enter(Append(Below, [Top EXCEPT !.acc = merged, !.st = "final"]),
                       MRFrame(Top, merged, Top.depth + 1))
    /\ UNCHANGED <<sargs, scalls, data, file, sumRest>>

\* a call raised into the frame that made it: _merge_recursive lets the
\* exception through; summarize_chunked catches it at lines 148-150 and
\* returns sanitize_summary("\n".join(partials))
Unwind ==
    /\ stack # <<>> /\ pending.kind = "exc"
    /\ stack' = Below
    /\ pending' = IF Top.f = "sc" THEN Value(SanitizeSummary(Join(<<"\n">>, Top.acc)))
                  ELSE pending
    /\ shist' = IF Top.f = "sc"
                THEN [shist EXCEPT !.fallbacks = Append(@,
                        [cause |-> pending.v[1], partials |-> Top.acc, ret |-> pending'.v])]
                ELSE shist
    /\ UNCHANGED <<sargs, scalls, data, file, sumRest>>

SumNext ==
    \/ \E ok \in BOOLEAN : SCDirect(ok)
    \/ SCChunk
    \/ \E ok \in BOOLEAN : SCPart(ok)
    \/ SCMerge
    \/ \E ok \in BOOLEAN : MRCall(ok)
    \/ MRSolo
    \/ MRGroup
    \/ Deliver
    \/ Unwind

SpecSum == SumInit /\ [][SumNext]_vars

-----------------------------------------------------------------------------
(* chunk_text applied to one input text *)

\* what the input texts are made of, joined by "\n": a fence line, one word,
\* two words, a blank line, a heading, two words with a carriage return between
LineVocabulary ==
    { Fence, <<"a">>, <<"a", " ", "b">>, <<>>, <<"#", " ", "a">>, <<"a", "\r", "b">> }
InputLines == UNION {[1..n -> LineVocabulary] : n \in 1..MaxLines}

ChunkInit ==
    /\ \E lines \in InputLines : text = Join(<<"\n">>, lines)
    /\ budget \in 1..MaxBudget
    /\ chunks = <<>> /\ cpc = "start"
    /\ CacheIdle /\ ManualIdle /\ KeyIdle /\ SumIdle /\ ExtIdle

\* chunks = chunk_text(text, tokenizer, budget)
DoChunkText ==
    /\ cpc = "start"
    /\ chunks' = ChunkText(text, budget)
    /\ cpc' = "done"
    /\ UNCHANGED <<text, budget, cacheVars, manualVars, keyVars, sumVars, extVars>>

ChunkNext == DoChunkText

SpecChunk == ChunkInit /\ [][ChunkNext]_vars

-----------------------------------------------------------------------------
(* cache.py: make_key applied to two argument pairs *)

\* logical keys: a module path, the f"{path}:{name}" docgenerator uses for a
\* class or function summary, and the f"REWRITE:{file_path}:{name}" of
\* _rewrite_docstring, for one snippet
KeyPaths ==
    { <<"m.py">>,
      <<"m.py", ":", "f">>,
      <<"REWRITE", ":", "m.py", ":", "f">> }
\* contents: None and strings, among them the text "<None>" and the empty text
KeyContents == {NoneArg, <<"<None>">>, <<>>, <<"def f">>}
KeyArgs == {[file_path |-> q, content |-> c] : q \in KeyPaths, c \in KeyContents}

KeyInit ==
    /\ keyIn \in [1..2 -> KeyArgs]
    /\ keyOut = <<>> /\ kpc = "start"
    /\ CacheIdle /\ ManualIdle /\ ChunkIdle /\ SumIdle /\ ExtIdle

\* the two calls of ResponseCache.make_key
DoMakeKeys ==
    /\ kpc = "start"
    /\ keyOut' = [i \in 1..2 |-> MakeKey(keyIn[i].file_path, keyIn[i].content)]
    /\ kpc' = "done"
    /\ UNCHANGED <<keyIn, cacheVars, manualVars, chunkVars, sumVars, extVars>>

KeyNext == DoMakeKeys

SpecKey == KeyInit /\ [][KeyNext]_vars

-----------------------------------------------------------------------------
(* explaincode.py: map_evidence_to_sections, on paths that are sequences of  *)
(* parts and texts whose symbols are words, spaces, "#" and "\n"             *)

SECTION_KEYWORDS ==
    << [section |-> <<"Overview">>, keywords |-> {<<"overview">>}],
       [section |-> Phrase(<<"Purpose", "&", "Problem", "Solving">>),
        keywords |-> {<<"purpose">>, <<"problem">>, <<"objective">>, <<"goal">>}],
       [section |-> Phrase(<<"How", "to", "Run">>),
        keywords |-> {Phrase(<<"how", "to", "run">>), <<"usage">>, <<"running">>,
                      <<"execution">>, <<"run">>}],
       [section |-> <<"Inputs">>, keywords |-> {<<"input">>, <<"inputs">>}],
       [section |-> <<"Outputs">>, keywords |-> {<<"output">>, <<"outputs">>}],
       [section |-> Phrase(<<"System", "Requirements">>),
        keywords |-> {Phrase(<<"system", "requirements">>), <<"requirements">>,
                      <<"dependencies">>}],
       [section |-> <<"Examples">>, keywords |-> {<<"example">>, <<"examples">>}] >>
SectionNames == {SECTION_KEYWORDS[i].section : i \in 1..Len(SECTION_KEYWORDS)}
MAX_SNIPPET_LINES == 20
MaxEntries == 10
skip_dirs == {"tests", "examples", "fixtures"}

\* bool(skip_dirs & {p.lower() for p in path.parts})
InExcludedDir(path) == \E i \in 1..Len(path) : Lower(path[i]) \in skip_dirs

\* the position in SECTION_KEYWORDS of the first section one of whose keywords
\* is found in the lowered line, 0 if there is none
FirstSection(lowered) ==
    LET hits == {i \in 1..Len(SECTION_KEYWORDS) :
                    \E k \in SECTION_KEYWORDS[i].keywords : Contains(lowered, k)}
    IN  IF hits = {} THEN 0 ELSE CHOOSE i \in hits : \A j \in hits : i <= j

\* the lines that end the collection of a snippet: a blank line, a heading
StopsSnippet(nxt) ==
    \/ Strip(nxt) = <<>>
    \/ StartsWith(LStrip(nxt), <<"#">>)
    \/ \E h \in {"<h1", "<h2", "<h3", "<h4", "<h5", "<h6"} : StartsWith(LStrip(nxt), <<h>>)

\* the snippet collected at line idx of lines, with at most max_lines
\* following lines
Snippet(lines, idx, max_lines) ==
    LET stops == {j \in (idx + 1)..Len(lines) : StopsSnippet(lines[j])}
        stop == IF stops = {} THEN Len(lines) + 1
                ELSE CHOOSE j \in stops : \A k \in stops : j <= k
        n == IF stop - idx - 1 < max_lines THEN stop - idx - 1 ELSE max_lines
        snippet_lines == [k \in 1..n |-> Strip(lines[idx + k])]
    IN  IF n = 0 THEN Strip(lines[idx])
        ELSE Strip(lines[idx]) \o <<"\n">> \o Strip(Join(<<" ">>, snippet_lines))

\* the entries one document would append if line 323 were absent
DocEntriesAnySection(doc) ==
    LET lines == SplitLines(doc.text)
        excluded == InExcludedDir(doc.path)
        sec(idx) == FirstSection(LowerStr(Strip(lines[idx])))
        kept == {idx \in 1..Len(lines) : sec(idx) # 0 /\ Strip(lines[idx]) # <<>>}
        order == Ascending(kept)
    IN  [k \in 1..Len(order) |->
            [section |-> sec(order[k]), path |-> doc.path,
             snippet |-> Snippet(lines, order[k],
                                 IF excluded THEN 0 ELSE MAX_SNIPPET_LINES)]]

\* the entries one document appends, in line order: (section index, path,
\* snippet)
DocEntries(doc) ==
    LET lines == SplitLines(doc.text)
        excluded == InExcludedDir(doc.path)
        sec(idx) == FirstSection(LowerStr(Strip(lines[idx])))
        kept == {idx \in 1..Len(lines) :
                    /\ sec(idx) # 0
                    /\ Strip(lines[idx]) # <<>>
                    /\ ~(SECTION_KEYWORDS[sec(idx)].section = <<"Overview">> /\ excluded)}
        order == Ascending(kept)
    IN  [k \in 1..Len(order) |->
            [section |-> sec(order[k]), path |-> doc.path,
             snippet |-> Snippet(lines, order[k],
                                 IF excluded THEN 0 ELSE MAX_SNIPPET_LINES)]]

\* list.sort(key=...): a stable sort by ascending key; keys[i] is the key of
\* entries[i]
StableSort(entries, keys) ==
    LET before(i) == {j \in 1..Len(entries) :
                        \/ keys[j] < keys[i]
                        \/ keys[j] = keys[i] /\ j < i}
    IN  [k \in 1..Len(entries) |->
            entries[CHOOSE i \in 1..Len(entries) : Cardinality(before(i)) = k - 1]]

\* _key of the Overview entries: README and docs/ first, then longer first;
\* the two components folded into one number (snippets are far shorter)
OverviewKey(e) ==
    LET in_docs == \E i \in 1..Len(e.path) : Lower(e.path[i]) = "docs"
        is_readme == Lower(e.path[Len(e.path)]) = "readme.md"
    IN  (IF is_readme \/ in_docs THEN 0 ELSE 1000) - Chars(e.snippet)
LengthKey(e) == 0 - Chars(e.snippet)

MapEvidence(ds) ==
    LET all == Join(<<>>, [d \in 1..Len(ds) |-> DocEntries(ds[d])])
        of(i) == SelectSeq(all, LAMBDA e : e.section = i)
        sorted(i) == IF SECTION_KEYWORDS[i].section = <<"Overview">>
                     THEN StableSort(of(i), [k \in 1..Len(of(i)) |-> OverviewKey(of(i)[k])])
                     ELSE StableSort(of(i), [k \in 1..Len(of(i)) |-> LengthKey(of(i)[k])])
        top(i) == SubSeq(sorted(i), 1, IF Len(sorted(i)) < MaxEntries
                                        THEN Len(sorted(i)) ELSE MaxEntries)
    IN  [i \in 1..Len(SECTION_KEYWORDS) |->
            [k \in 1..Len(top(i)) |->
                [path |-> top(i)[k].path, snippet |-> top(i)[k].snippet]]]

-----------------------------------------------------------------------------
(* map_evidence_to_sections applied to the documents of one project *)

\* where the documents lie: the project root, docs/, src/, and directories
\* named tests, Examples and fixtures
DocPaths ==
    { <<"README.md">>, <<"docs", "guide.md">>, <<"src", "notes.md">>,
      <<"tests", "notes.md">>, <<"Examples", "demo.md">>,
      <<"pkg", "fixtures", "data.md">> }
\* what they say: an overview heading with a body, a usage heading with a
\* body, a sentence naming the overview and the usage, inputs before an
\* overview
DocTexts ==
    { <<"#", " ", "Overview", "\n", "the", " ", "tool">>,
      <<"#", " ", "Usage", "\n", "run", " ", "it", "\n", "\n", "more">>,
      <<"Overview", " ", "of", " ", "usage">>,
      <<"#", " ", "Inputs", "\n", "a", " ", "file", "\n", "#", " ", "Overview">> }
MaxDocs == 2
DocSets ==
    UNION {{ds \in [1..n -> [path : DocPaths, text : DocTexts]] :
                \A i, j \in 1..n : i # j => ds[i].path # ds[j].path} : n \in 1..MaxDocs}

EvidenceInit ==
    /\ docs \in DocSets
    /\ sectionMap = <<>> /\ epc = "start"
    /\ CacheIdle /\ ManualIdle /\ ChunkIdle /\ KeyIdle /\ SumIdle /\ MainIdle /\ FnIdle
    /\ ResumeIdle /\ RetryIdle

\* section_map, file_map = map_evidence_to_sections(docs)
DoMapEvidence ==
    /\ epc = "start"
    /\ sectionMap' = MapEvidence(docs)
    /\ epc' = "done"
    /\ UNCHANGED <<docs, cacheVars, manualVars, chunkVars, keyVars, sumVars, mainVars, fnVars,
                   resumeVars, retryVars>>

EvidenceNext == DoMapEvidence

SpecEvidence == EvidenceInit /\ [][EvidenceNext]_vars

-----------------------------------------------------------------------------
(* explaincode.py: main from the doc pass to render_html, with              *)
(* llm_generate_manual, llm_fill_placeholders, parse_manual and             *)
(* infer_sections.  Texts are words, spaces, "\n", ":" and the pieces of    *)
(* bracketed tokens: "[[", "]]" and the parts of the name between them.     *)

\* SECTION_PLACEHOLDERS, in the order of REQUIRED_SECTIONS
SECTION_PLACEHOLDERS ==
    [i \in 1..Len(REQUIRED_SECTIONS) |->
        <<"[[", "NEEDS_",
          <<"OVERVIEW", "PURPOSE", "RUN_INSTRUCTIONS", "INPUTS", "OUTPUTS",
            "REQUIREMENTS", "EXAMPLES">>[i], "]]">>]

\* manual_utils.find_placeholders: the matches of r"\[\[[^\[\]]+\]\]"
Brackets == {"[[", "]]"}
FindPlaceholders(t) ==
    LET opens == {i \in 1..Len(t) : t[i] = "[["}
        closes == {j \in 1..Len(t) : t[j] = "]]"}
    IN  {SubSeq(t, q[1], q[2]) :
            q \in {r \in opens \X closes :
                      /\ r[1] + 2 <= r[2]
                      /\ \A k \in (r[1] + 1)..(r[2] - 1) : t[k] \notin Brackets}}

\* detect_placeholders(text): the sections whose token occurs in the text
DetectPlaceholders(t) ==
    {i \in 1..Len(REQUIRED_SECTIONS) : SECTION_PLACEHOLDERS[i] \in FindPlaceholders(t)}

\* s.replace(old, ""), one pass from the left
Remove(s, old) == RemoveAll(s, {old})
\* for token in SECTION_PLACEHOLDERS.values(): response = response.replace(token, "")
RECURSIVE StripTokens(_, _)
StripTokens(s, i) ==
    IF i > Len(SECTION_PLACEHOLDERS) THEN s
    ELSE StripTokens(Remove(s, SECTION_PLACEHOLDERS[i]), i + 1)

\* the symbols r"[A-Za-z &]" does not match
NotInHeading == {"[[", "]]", ":", "\n", "#", "NEEDS_", "RUN_INSTRUCTIONS", "(inferred)", "prints."}
\* re.match(r"^([A-Za-z &]+):\s*(.*)$", stripped): 0 when there is no match,
\* else the position of the colon
HeadingColon(stripped) ==
    LET colons == {i \in 2..Len(stripped) :
                      /\ stripped[i] = ":"
                      /\ \A k \in 1..(i - 1) : stripped[k] \notin NotInHeading}
    IN  IF colons = {} THEN 0 ELSE CHOOSE i \in colons : TRUE

\* parse_manual(text, infer_missing=False): the sections in the order of
\* their first heading, as (name, text) pairs; current is the position of the
\* section of the last heading seen, 0 before the first
RECURSIVE ParseLines(_, _, _)
ParseLines(lines, sections, current) ==
    IF lines = <<>> THEN sections
    ELSE LET stripped == Strip(Head(lines))
             c == HeadingColon(stripped)
             name == Strip(SubSeq(stripped, 1, c - 1))
             body == Strip(SubSeq(stripped, c + 1, Len(stripped)))
             at == {k \in 1..Len(sections) : sections[k].name = name}
             k == IF at = {} THEN Len(sections) + 1 ELSE CHOOSE x \in at : TRUE
         IN  IF stripped = <<>> THEN ParseLines(Tail(lines), sections, current)
             ELSE IF c # 0 THEN
                 ParseLines(Tail(lines),
                            IF at = {} THEN Append(sections, [name |-> name, text |-> body])
                            ELSE [sections EXCEPT ![k].text = body],
                            k)
             ELSE IF current # 0 THEN
                 ParseLines(Tail(lines),
                            [sections EXCEPT ![current].text =
                                (IF @ = <<>> THEN <<>> ELSE @ \o <<"\n">>) \o stripped],
                            current)
             ELSE ParseLines(Tail(lines), sections, current)
ParseManual(t) == ParseLines(SplitLines(t), <<>>, 0)

\* parsed.get(section, default)
SectionGet(sections, name, default) ==
    LET at == {k \in 1..Len(sections) : sections[k].name = name}
    IN  IF at = {} THEN default ELSE sections[CHOOSE k \in at : TRUE].text

\* what the LLM answers when asked for section i
AnswerKinds == {"plain", "own", "todo", "nested", "raise"}
Answer(i, kind) ==
    CASE kind = "plain" -> Phrase(<<"It", "prints.">>)
      [] kind = "own" -> SECTION_PLACEHOLDERS[i]
      [] kind = "todo" -> <<"see", " ", "[[", "TODO", "]]">>
      [] kind = "nested" ->
            <<"[[", "NEEDS_">> \o SECTION_PLACEHOLDERS[IF i = 2 THEN 3 ELSE 2]
            \o <<SECTION_PLACEHOLDERS[i][3], "]]">>

\* the text of section i in llm_generate_manual, for a prompt within the
\* context window and an empty cache
GeneratedSection(i, entries, kind) ==
    LET placeholder == SECTION_PLACEHOLDERS[i]
        result == SanitizeSummary(Answer(i, kind))
        parsed == ParseManual(result)
        txt == SectionGet(parsed, REQUIRED_SECTIONS[i], Strip(result))
    IN  IF entries = <<>> THEN placeholder
        ELSE IF placeholder \in FindPlaceholders(txt) THEN placeholder
        ELSE txt

\* manual_text of llm_generate_manual
GeneratedManual(section_map, answers) ==
    Join(<<"\n">>,
         [i \in 1..Len(REQUIRED_SECTIONS) |->
             REQUIRED_SECTIONS[i] \o <<":", " ">>
             \o GeneratedSection(i, section_map[i], answers[i])])

\* what the last summarize_chunked call of llm_fill_placeholders returns
FillKinds == {"plain", "echo", "todo", "raise"}
Filled(manual_text, kind) ==
    SanitizeSummary(
        CASE kind = "plain" -> <<"Overview", ":", " ">> \o Phrase(<<"It", "prints.">>)
          [] kind = "echo" -> manual_text
          [] kind = "todo" -> <<"Overview", ":", " ", "see", " ", "[[", "TODO", "]]">>)

\* explaincode.infer_sections(text)
MainInferSections(t) ==
    [i \in 1..Len(REQUIRED_SECTIONS) |->
        [name |-> REQUIRED_SECTIONS[i],
         text |-> IF Strip(t) = <<>> THEN Phrase(<<"No", "information", "provided.">>)
                  ELSE IF i = 1 THEN Strip(t)
                  ELSE REQUIRED_SECTIONS[i] \o <<" ", "details", " ", "(inferred)">>]]

\* should_scan of main
ShouldScan(flag, missing) ==
    CASE flag = "no_code" -> FALSE
      [] flag = "force_code" -> TRUE
      [] flag = "scan_code_if_needed" -> missing # {}
      [] OTHER -> FALSE

-----------------------------------------------------------------------------
(* main applied to one project *)

MainTexts ==
    { <<"#", " ", "Overview", "\n", "the", " ", "tool">>,
      <<"#", " ", "Usage", "\n", "run", " ", "it", "\n", "#", " ", "Inputs">>,
      <<"#", " ", "Overview", "\n", "prints", " ", "[[", "TODO", "]]">> }
MainDocs ==
    {<<[path |-> q, text |-> t]>> : q \in {<<"README.md">>, <<"docs", "tests", "notes.md">>},
                                    t \in MainTexts}
\* the sections whose answers vary: Overview and How to Run
Answered == {1, 3}
MainOptions ==
    [flag : {"no_code", "force_code", "scan_code_if_needed", "none"},
     code_found : BOOLEAN,
     answers : {a \in [1..Len(REQUIRED_SECTIONS) -> AnswerKinds] :
                   \A i \in 1..Len(REQUIRED_SECTIONS) : i \notin Answered => a[i] = "plain"},
     fill : FillKinds]

MainInit ==
    /\ docs \in MainDocs /\ sectionMap = <<>> /\ epc = "idle"
    /\ mopts \in MainOptions
    /\ response = <<>> /\ msections = <<>> /\ xpc = "start"
    /\ CacheIdle /\ ManualIdle /\ ChunkIdle /\ KeyIdle /\ SumIdle /\ FnIdle /\ ResumeIdle /\ RetryIdle

mainRest == <<cacheVars, manualVars, chunkVars, keyVars, sumVars, fnVars, resumeVars, retryVars>>

\* lines 1100-1106: ping and llm_generate_manual; an exception of a
\* summarize call leaves the try block
MainGenerate ==
    /\ xpc = "start"
    /\ sectionMap' = MapEvidence(docs)
    /\ IF \E i \in 1..Len(REQUIRED_SECTIONS) :
            sectionMap'[i] # <<>> /\ mopts.answers[i] = "raise"
       THEN xpc' = "failed" /\ UNCHANGED response
       ELSE /\ response' = GeneratedManual(sectionMap', mopts.answers)
            /\ xpc' = "generated"
    /\ UNCHANGED <<docs, epc, mopts, msections, mainRest>>

\* lines 1114-1152: the code pass, when it runs
MainFill ==
    /\ xpc = "generated"
    /\ LET missing == DetectPlaceholders(response)
       IN  ShouldScan(mopts.flag, missing) /\ mopts.code_found /\ missing # {}
    /\ IF mopts.fill = "raise" THEN xpc' = "failed" /\ UNCHANGED response
       ELSE response' = Filled(response, mopts.fill) /\ xpc' = "filled"
    /\ UNCHANGED <<evidenceVars, mopts, msections, mainRest>>

\* lines 1114-1152: no code pass
MainSkipFill ==
    /\ xpc = "generated"
    /\ LET missing == DetectPlaceholders(response)
       IN  ~(ShouldScan(mopts.flag, missing) /\ mopts.code_found /\ missing # {})
    /\ xpc' = "filled"
    /\ UNCHANGED <<evidenceVars, mopts, response, msections, mainRest>>

\* lines 1157-1160: the known tokens removed, the manual parsed
MainParse ==
    /\ xpc = "filled"
    /\ response' = StripTokens(response, 1)
    /\ msections' = ParseManual(response')
    /\ xpc' = "render"
    /\ UNCHANGED <<evidenceVars, mopts, mainRest>>

\* lines 1161-1169: the fallback after an exception
MainFallback ==
    /\ xpc = "failed"
    /\ msections' = MainInferSections(
                        Join(<<"\n">>, SelectSeq([d \in 1..Len(docs) |-> docs[d].text],
                                                 LAMBDA t : t # <<>>)))
    /\ xpc' = "render"
    /\ UNCHANGED <<evidenceVars, mopts, response, mainRest>>

MainNext == MainGenerate \/ MainFill \/ MainSkipFill \/ MainParse \/ MainFallback

SpecMain == MainInit /\ [][MainNext]_vars

-----------------------------------------------------------------------------
(* The structural chunker (packStructural): docgenerator._chunk_module_by_  *)
(* structure is called by the tests but is not part of this source tree, so  *)
(* it is modelled from section 4.4 of the specification.  A unit carries its *)
(* source and its sub-units in declaration order.                            *)

Unit(source, children) == [source |-> source, children |-> children]

\* a chunker that falls back to splitting the text of an oversized unit
PackAsText(unit, token_budget) ==
    IF Len(Encode(unit.source)) <= token_budget THEN <<unit.source>>
    ELSE ChunkText(unit.source, token_budget)

\* the policy, top-down: a unit that fits is one chunk; one that does not is
\* replaced by the chunks of its sub-units, in declaration order; a leaf that
\* does not fit is split as an oversized block is
RECURSIVE PackStructural(_, _)
PackStructural(unit, token_budget) ==
    IF Len(Encode(unit.source)) <= token_budget THEN <<unit.source>>
    ELSE IF unit.children = <<>> THEN SplitLongBlock(unit.source, token_budget)
    ELSE Join(<<>>, [k \in 1..Len(unit.children) |->
                        PackStructural(unit.children[k], token_budget)])

-----------------------------------------------------------------------------
(* packStructural applied to one unit *)

\* functions and methods of one to three tokens
Leaf(name, n) == Unit(<<"def", " ", name>> \o Join(<<>>, [k \in 1..(n - 1) |-> <<"\n", "x">>]), <<>>)
MaxBody == 3
Leaves == {Leaf(name, n + 1) : name \in {"f", "g"}, n \in 1..MaxBody}
\* a class or a module: a header line and the sub-units' sources
Composite(header, children) ==
    Unit(header \o Join(<<>>, [k \in 1..Len(children) |-> <<"\n">> \o children[k].source]),
         children)
Classes ==
    {Composite(<<"class", " ", "C">>, ms) : ms \in UNION {[1..n -> Leaves] : n \in 1..2}}
Modules ==
    {Composite(<<"#", "m">>, us) : us \in (Leaves \X Leaves) \cup (Classes \X Leaves)}
Units == Leaves \cup Classes \cup Modules
MaxUnitBudget == 6

StructInit ==
    /\ \E u \in Units, b \in 1..MaxUnitBudget : fnIn = [unit |-> u, budget |-> b]
    /\ fnOut = <<>> /\ fnPc = "start"
    /\ CacheIdle /\ ManualIdle /\ ChunkIdle /\ KeyIdle /\ SumIdle
    /\ EvidenceIdle /\ MainIdle /\ ResumeIdle /\ RetryIdle

fnRest == <<fnIn, cacheVars, manualVars, chunkVars, keyVars, sumVars, evidenceVars, mainVars,
            resumeVars, retryVars>>

\* chunks = packStructural(unit, budget)
DoPackStructural ==
    /\ fnPc = "start"
    /\ fnOut' = PackStructural(fnIn.unit, fnIn.budget)
    /\ fnPc' = "done"
    /\ UNCHANGED fnRest

StructNext == DoPackStructural

SpecStruct == StructInit /\ [][StructNext]_vars

-----------------------------------------------------------------------------
(* docgenerator.py: a run of main over the modules of a project that is      *)
(* interrupted, and the run with --resume that follows.  The progress ledger *)
(* is that of cache.py; main's use of it (tests/test_resume_progress.py) is  *)
(* not part of this source tree and is modelled from the specification: an   *)
(* entry is recorded once a module is complete, a resumed run does not       *)
(* summarize a module that has an entry, and the ledger is cleared at the    *)
(* end of a run.                                                             *)

\* the modules scan_directory finds in a project of n modules, in order
MaxModules == 4
ModulePaths(n) == [i \in 1..n |-> "mod" \o ToString(i) \o ".py"]
AllModules(n) == {ModulePaths(n)[i] : i \in 1..n}

\* cache.json as far as the ledger goes: kind as for File, progress the paths
\* with an entry
LedgerFile(kind, progress) == [kind |-> kind, progress |-> progress]
\* ResponseCache(path).get_progress(): a missing file and a text that is not
\* JSON both give an empty ledger
LoadLedger(f) == IF f.kind = "object" THEN f.progress ELSE {}
\* _save() of a ledger, by how far the process got
SaveLedger(progress, outcome) ==
    CASE outcome = "killed_empty" -> LedgerFile("empty", {})
      [] outcome = "killed_prefix" -> LedgerFile("prefix", {})
      [] OTHER -> LedgerFile("object", progress)

ResumeInit ==
    /\ rfile = LedgerFile("absent", {}) /\ rdata = {} /\ rrun = 0 /\ ridx = 0
    /\ rcalls = <<>> /\ rout = {} /\ rpc = "idle"
    /\ \E n \in 1..MaxModules :
          rhist = [modules |-> n, completed |-> {}, resumed |-> {}, killed |-> "no"]
    /\ CacheIdle /\ ManualIdle /\ ChunkIdle /\ KeyIdle /\ SumIdle
    /\ EvidenceIdle /\ MainIdle /\ FnIdle /\ RetryIdle

resumeRest == <<cacheVars, manualVars, chunkVars, keyVars, sumVars, evidenceVars, mainVars,
                fnVars, retryVars>>

\* main starts: cache = ResponseCache(output_dir / "cache.json"); the first
\* run is started without --resume, the second with it
RStart ==
    /\ rpc \in {"idle", "interrupted"}
    /\ rrun' = rrun + 1
    /\ rdata' = LoadLedger(rfile)
    /\ rhist' = [rhist EXCEPT !.resumed = IF rrun = 1 THEN LoadLedger(rfile) ELSE @]
    /\ ridx' = 1 /\ rcalls' = <<>> /\ rout' = {} /\ rpc' = "loop"
    /\ UNCHANGED <<rfile, resumeRest>>

\* the loop reaches a module that has a progress entry, in a resumed run
RSkip ==
    /\ rpc = "loop" /\ ridx <= rhist.modules
    /\ rrun = 2 /\ ModulePaths(rhist.modules)[ridx] \in rdata
    /\ ridx' = ridx + 1
    /\ UNCHANGED <<rfile, rdata, rrun, rcalls, rout, rhist, rpc, resumeRest>>

\* the loop reaches a module that has none: the module is summarized
RSummarize ==
    /\ rpc = "loop" /\ ridx <= rhist.modules
    /\ ~(rrun = 2 /\ ModulePaths(rhist.modules)[ridx] \in rdata)
    /\ rcalls' = Append(rcalls, ModulePaths(rhist.modules)[ridx])
    /\ rpc' = "record"
    /\ UNCHANGED <<rfile, rdata, rrun, ridx, rout, rhist, resumeRest>>

\* cache.set_progress_entry(path, module) returns
RRecord ==
    /\ rpc = "record"
    /\ rdata' = rdata \cup {ModulePaths(rhist.modules)[ridx]}
    /\ rfile' = SaveLedger(rdata', "returned")
    /\ rhist' = [rhist EXCEPT !.completed = IF rrun = 1 THEN @ \cup {ModulePaths(rhist.modules)[ridx]} ELSE @]
    /\ ridx' = ridx + 1 /\ rpc' = "loop"
    /\ UNCHANGED <<rrun, rcalls, rout, resumeRest>>

\* the pages of all modules are written
RWrite ==
    /\ rpc = "loop" /\ ridx > rhist.modules
    /\ rout' = AllModules(rhist.modules)
    /\ rpc' = "clear"
    /\ UNCHANGED <<rfile, rdata, rrun, ridx, rcalls, rhist, resumeRest>>

\* cache.clear_progress(), and main returns 0
RClear ==
    /\ rpc = "clear"
    /\ rdata' = {}
    /\ rfile' = SaveLedger({}, "returned")
    /\ rpc' = "done"
    /\ UNCHANGED <<rrun, ridx, rcalls, rout, rhist, resumeRest>>

\* the first run is interrupted between two calls of the cache, once a module
\* is complete and before the pages are written
RInterrupt ==
    /\ rrun = 1 /\ rpc \in {"loop", "record"}
    /\ rhist.completed # {}
    /\ rpc' = "interrupted"
    /\ rhist' = [rhist EXCEPT !.killed = "between"]
    /\ UNCHANGED <<rfile, rdata, rrun, ridx, rcalls, rout, resumeRest>>

\* the first run is killed inside set_progress_entry, in _save: before the
\* text is written, in the middle of it, or after it
RKilledInSave ==
    /\ rrun = 1 /\ rpc = "record"
    /\ rhist.completed # {}
    /\ \E outcome \in SaveOutcomes \ {"returned"} :
          /\ rfile' = SaveLedger(rdata \cup {ModulePaths(rhist.modules)[ridx]}, outcome)
          /\ rhist' = [rhist EXCEPT
                          !.killed = outcome,
                          !.completed = IF outcome = "killed_written"
                                        THEN @ \cup {ModulePaths(rhist.modules)[ridx]} ELSE @]
    /\ rpc' = "interrupted"
    /\ UNCHANGED <<rdata, rrun, ridx, rcalls, rout, resumeRest>>

ResumeNext ==
    \/ RStart \/ RSkip \/ RSummarize \/ RRecord \/ RWrite \/ RClear
    \/ RInterrupt \/ RKilledInSave

SpecResume == ResumeInit /\ [][ResumeNext]_vars

-----------------------------------------------------------------------------
(* chunk_utils.py: the fallback tokenizer applied to one text *)

\* _Simple.decode(tokens)
Decode(tokens) == Join(<<" ">>, tokens)

\* texts of the pieces of FIM tokens, spaces and a word
MaxSymbols == 6
FimPieces == {"<|fim_", "prefix", "|>", " "}
FimTexts == UNION {[1..n -> FimPieces] : n \in 0..MaxSymbols}

EncodeInit ==
    /\ fnIn \in FimTexts
    /\ fnOut = <<>> /\ fnPc = "start"
    /\ CacheIdle /\ ManualIdle /\ ChunkIdle /\ KeyIdle /\ SumIdle
    /\ EvidenceIdle /\ MainIdle /\ ResumeIdle /\ RetryIdle

\* tokens = tokenizer.encode(text); tokenizer.decode(tokens)
DoEncode ==
    /\ fnPc = "start"
    /\ fnOut' = [tokens |-> Encode(fnIn), decoded |-> Decode(Encode(fnIn))]
    /\ fnPc' = "done"
    /\ UNCHANGED fnRest

EncodeNext == DoEncode

SpecEncode == EncodeInit /\ [][EncodeNext]_vars

-----------------------------------------------------------------------------
(* llm_client.py: sanitize_summary applied to a response, and to its result *)

\* the lines of the responses: a bullet, the two words the first test of
\* sanitize_summary looks for, a plain line, a prompt phrase, a FIM token
\* inside another, a blank line
ResponseLines ==
    { <<"-", " ", "x">>, Phrase(<<"project", "summary">>), <<"beta">>,
      Phrase(<<"summarize", "this">>),
      <<"a", " ", "<|fim_", "<|fim_", "prefix", "|>", "prefix", "|>">>, <<>> }
MaxResponseLines == 3
ResponseTexts ==
    {Join(<<"\n">>, ls) : ls \in UNION {[1..n -> ResponseLines] : n \in 1..MaxResponseLines}}

SanitizeInit ==
    /\ fnIn \in ResponseTexts
    /\ fnOut = <<>> /\ fnPc = "start"
    /\ CacheIdle /\ ManualIdle /\ ChunkIdle /\ KeyIdle /\ SumIdle
    /\ EvidenceIdle /\ MainIdle /\ ResumeIdle /\ RetryIdle

\* first = sanitize_summary(text), as on the run that caches the response;
\* second = sanitize_summary(first), as on a later run that reads it back
DoSanitizeTwice ==
    /\ fnPc = "start"
    /\ fnOut' = [first |-> SanitizeSummary(fnIn),
                 second |-> SanitizeSummary(SanitizeSummary(fnIn))]
    /\ fnPc' = "done"
    /\ UNCHANGED fnRest

SanitizeNext == DoSanitizeTwice

SpecSanitize == SanitizeInit /\ [][SanitizeNext]_vars

-----------------------------------------------------------------------------
(* docgenerator.py: _rewrite_docstring, the key it computes and the prompt   *)
(* it builds; the fixed sentences of the prompts are single symbols, the     *)
(* arguments are texts of single characters                                 *)

\* (x or ""): None and "" are both false
OrEmpty(x) == IF x = NoneArg THEN <<>> ELSE x
Truthy(x) == OrEmpty(x) # <<>>

\* _build_function_prompt(source, class_name, class_summary, project_summary)
BuildFunctionPrompt(source, class_name, class_summary, project_summary) ==
    Join(<<"\n">>,
         <<<<"You are a documentation generator.">>>>
         \o (IF Truthy(class_name)
             THEN << <<"The following function is part of the class ", Backtick>>
                     \o class_name \o <<Backtick, ".">> >>
             ELSE <<>>)
         \o (IF Truthy(class_summary) THEN << <<"This class ">> \o class_summary >> ELSE <<>>)
         \o (IF Truthy(project_summary) THEN << <<"This project ">> \o project_summary >> ELSE <<>>)
         \o << <<"Summarize the function based on its source code below.">>,
               <<"- Do not include assistant phrasing or usage instructions.">>,
               <<"- Do not mention unrelated games or systems.">>,
               <<"- Only use the context and code provided.">>,
               <<>>,
               Fence \o <<"python">>,
               source,
               Fence >>)

\* DOC_PROMPT.format(source=source, docstring=docstring)
DocPrompt(source, docstring) ==
    <<"You are a documentation engine. ... Code:", "\n">> \o Fence \o <<"python", "\n">>
    \o source \o <<"\n", "Docstring (optional):", "\n", "\"\"\"">> \o docstring
    \o <<"\"\"\"", "\n">> \o Fence

\* _rewrite_docstring up to the call of _summarize: the key and the prompt,
\* or nothing when the item has neither source nor docstring
RewriteRequest(file_path, item, class_name, class_summary, project_summary) ==
    LET context == Truthy(class_name) \/ Truthy(class_summary) \/ Truthy(project_summary)
        prompt == IF context
                  THEN BuildFunctionPrompt(item.source, class_name, class_summary,
                                           project_summary)
                  ELSE DocPrompt(item.source, item.docstring)
        key_content == IF context
                       THEN item.source \o OrEmpty(class_name) \o OrEmpty(class_summary)
                            \o OrEmpty(project_summary)
                       ELSE item.source \o item.docstring
    IN  IF item.source = <<>> /\ item.docstring = <<>> THEN [returned |-> TRUE]
        ELSE [returned |-> FALSE,
              key |-> MakeKey(<<"REWRITE", ":">> \o file_path \o <<":">> \o item.name,
                              key_content),
              prompt |-> prompt]

-----------------------------------------------------------------------------
(* _rewrite_docstring called twice for one file *)

RewriteContexts == {NoneArg, <<"b">>}
RewriteCalls ==
    [item : [name : {<<"f">>, <<"g">>}, source : {<<>>, <<"a">>, <<"a", "b">>},
             docstring : {<<>>, <<"b">>}],
     class_name : RewriteContexts, class_summary : RewriteContexts,
     project_summary : RewriteContexts]

RewriteInit ==
    /\ fnIn \in [1..2 -> RewriteCalls]
    /\ fnOut = <<>> /\ fnPc = "start"
    /\ CacheIdle /\ ManualIdle /\ ChunkIdle /\ KeyIdle /\ SumIdle
    /\ EvidenceIdle /\ MainIdle /\ ResumeIdle /\ RetryIdle

\* the two calls of _rewrite_docstring(client, cache, "m.py", item, ...)
DoRewriteTwice ==
    /\ fnPc = "start"
    /\ fnOut' = [i \in 1..2 |->
                    RewriteRequest(<<"m.py">>, fnIn[i].item, fnIn[i].class_name,
                                   fnIn[i].class_summary, fnIn[i].project_summary)]
    /\ fnPc' = "done"
    /\ UNCHANGED fnRest

RewriteNext == DoRewriteTwice

SpecRewrite == RewriteInit /\ [][RewriteNext]_vars

-----------------------------------------------------------------------------
(* The calls that go through the cache: one run of _summarize_manual (map   *)
(* stage, merge passes, final merge) or one call of summarize_chunked       *)
(* (the _summarize helper)                                                  *)

CachedCallsInit == ManualInit \/ SumInit

CachedCallsNext ==
    \/ sargs = <<>> /\ MergeNext
    \/ sargs # <<>> /\ SumNext

SpecCachedCalls == CachedCallsInit /\ [][CachedCallsNext]_vars

-----------------------------------------------------------------------------
(* The chunking option: what _summarize_manual (manual_utils.py) and the    *)
(* section call of llm_generate_manual (explaincode.py), which is what main *)
(* hands config.chunking to, do with a text of a given size.  A text is     *)
(* given by what the code measures of it: its tokens and its characters.    *)

\* max_context_tokens of llm_generate_manual, and the tokens of the system
\* prompt and of the words the prompt puts before the snippets, for the
\* section "Overview"
MAX_CONTEXT_TOKENS == 4096
SECTION_SYSTEM_TOKENS == 34
SECTION_PREFIX_TOKENS == 13

\* available = max_context_tokens - overhead; the "docstring" template is "{text}"
SectionAvailable == MAX_CONTEXT_TOKENS - (SECTION_SYSTEM_TOKENS + TemplateTokens("docstring"))

ChunkingModes == {"auto", "manual", "none"}
\* sizes at each side of the limits the code compares with; a text of n
\* tokens has at least 2n-1 characters
TokenSizes ==
    {SECTION_PREFIX_TOKENS + 1, MAX_TOKENS, MAX_TOKENS + 1, SectionAvailable, SectionAvailable + 1}
SizedTexts ==
    {t \in [tokens : TokenSizes,
            chars : {MAX_CHARS, MAX_CHARS + 1} \cup {2 * n + MAX_CHARS : n \in TokenSizes}] :
        t.chars >= 2 * t.tokens - 1}

\* within_limits = _count_tokens(text) <= 2000 and len(text) <= 6000
WithinLimitsSized(t) == t.tokens <= MAX_TOKENS /\ t.chars <= MAX_CHARS

\* the branch _summarize_manual takes
ManualUtilsChunks(chunking, t) ==
    chunking = "manual" \/ (chunking = "auto" /\ ~WithinLimitsSized(t))

\* the branch llm_generate_manual takes for the prompt of a section: the
\* chunking parameter is not read
SectionChunks(chunking, prompt) == prompt.tokens > SectionAvailable

\* what a call does: the text goes through the chunker, or one request carries
\* all of it (none when the cache has the response)
Outcome26(chunked, cached, t) ==
    [chunked |-> chunked,
     requests |-> IF chunked THEN "chunks" ELSE IF cached THEN <<>> ELSE <<t>>]

ModeInit ==
    /\ fnIn \in [callee : {"_summarize_manual", "llm_generate_manual"},
                 chunking : ChunkingModes, text : SizedTexts, cached : BOOLEAN]
    /\ fnOut = <<>> /\ fnPc = "start"
    /\ CacheIdle /\ ManualIdle /\ ChunkIdle /\ KeyIdle /\ SumIdle
    /\ EvidenceIdle /\ MainIdle /\ ResumeIdle /\ RetryIdle

\* _summarize_manual(client, cache, text, chunking)
DoSummarizeManual ==
    /\ fnPc = "start" /\ fnIn.callee = "_summarize_manual"
    /\ fnOut' = Outcome26(ManualUtilsChunks(fnIn.chunking, fnIn.text), fnIn.cached, fnIn.text)
    /\ fnPc' = "done"
    /\ UNCHANGED <<fnIn, fnRest>>

\* llm_generate_manual(docs, client, cache, chunking): the request for a
\* section whose prompt is fnIn.text
DoGenerateSection ==
    /\ fnPc = "start" /\ fnIn.callee = "llm_generate_manual"
    /\ fnOut' = Outcome26(SectionChunks(fnIn.chunking, fnIn.text), fnIn.cached, fnIn.text)
    /\ fnPc' = "done"
    /\ UNCHANGED <<fnIn, fnRest>>

ModeNext == DoSummarizeManual \/ DoGenerateSection

SpecMode == ModeInit /\ [][ModeNext]_vars

-----------------------------------------------------------------------------
(* llm_client.py: the request loop of LLMClient.summarize, one iteration of  *)
(* "for _ in range(3)" at a time                                            *)

MAX_ATTEMPTS == 3

\* what one requests.post can come to:
\*   "ok"            a response whose body holds the content
\*   "http_error"    raise_for_status raises HTTPError; body tells what the
\*                   response holds: a JSON object with an "error" member, one
\*                   without, JSON that is no object, or text that is no JSON
\*   "request_error" requests.post raises another RequestException
\*   "bad_body"      a 200 response whose body is not the JSON expected
Contents == {<<"beta">>, Join(<<"\n">>, <<Phrase(<<"summarize", "this">>), <<"beta">>>>)}
Messages == {<<"boom">>, <<"server", " ", "exploded">>}
Bodies == {"error_member", "no_error_member", "not_object", "not_json"}
AttemptOutcomes ==
    [kind : {"ok"}, content : Contents]
    \cup [kind : {"http_error"}, body : Bodies, error : {<<"overloaded">>}, text : Messages]
    \cup [kind : {"request_error"}, str : Messages]
    \cup [kind : {"bad_body"}]

\* the except clauses: error_message after a failed attempt
KeepFirstMessage(current, attempt) ==
    IF current # <<>> THEN current
    ELSE IF attempt.kind = "request_error" THEN attempt.str
    ELSE IF attempt.body = "error_member" THEN attempt.error ELSE attempt.text

ErrorMessage(current, attempt) ==
    IF attempt.kind = "request_error" THEN attempt.str
    ELSE IF attempt.body = "error_member" THEN attempt.error
    ELSE attempt.text

RetryInit ==
    /\ attempts = <<>> /\ sleeps = 0 /\ error_message = <<>> /\ lret = NoReturn
    /\ lpc = "loop"
    /\ CacheIdle /\ ManualIdle /\ ChunkIdle /\ KeyIdle /\ SumIdle
    /\ EvidenceIdle /\ MainIdle /\ FnIdle /\ ResumeIdle

retryRest == <<cacheVars, manualVars, chunkVars, keyVars, sumVars, evidenceVars, mainVars,
               fnVars, resumeVars>>

\* an iteration whose request succeeds: return sanitize_summary(content)
LAttemptOk ==
    /\ lpc = "loop"
    /\ \E a \in AttemptOutcomes :
          /\ a.kind = "ok"
          /\ attempts' = Append(attempts, a)
          /\ lret' = [kind |-> "returned", value |-> SanitizeSummary(a.content)]
    /\ lpc' = "done"
    /\ UNCHANGED <<sleeps, error_message, retryRest>>

\* an iteration that ends in one of the except clauses: the message is kept,
\* time.sleep(1), and the loop goes on while iterations are left
LAttemptFails ==
    /\ lpc = "loop"
    /\ \E a \in AttemptOutcomes :
          /\ a.kind \in {"http_error", "request_error"}
          /\ attempts' = Append(attempts, a)
          /\ error_message' = ErrorMessage(error_message, a)
    /\ sleeps' = sleeps + 1
    /\ lpc' = IF Len(attempts') < MAX_ATTEMPTS THEN "loop" ELSE "exhausted"
    /\ UNCHANGED <<lret, retryRest>>

\* an iteration whose response cannot be read: json.loads or the indexing
\* raises, which no except clause catches
LAttemptBadBody ==
    /\ lpc = "loop"
    /\ attempts' = Append(attempts, [kind |-> "bad_body"])
    /\ lret' = [kind |-> "raised", value |-> <<"ValueError">>]
    /\ lpc' = "done"
    /\ UNCHANGED <<sleeps, error_message, retryRest>>

\* after the loop: raise RuntimeError(f"LLM request failed: {error_message}")
LRaise ==
    /\ lpc = "exhausted"
    /\ lret' = [kind |-> "raised",
                value |-> <<"RuntimeError", "LLM request failed: ">> \o error_message]
    /\ lpc' = "done"
    /\ UNCHANGED <<attempts, sleeps, error_message, retryRest>>

RetryNext == LAttemptOk \/ LAttemptFails \/ LAttemptBadBody \/ LRaise

SpecRetry == RetryInit /\ [][RetryNext]_vars

-----------------------------------------------------------------------------
(* Claims about the map stage of _summarize_manual, checked under SpecManual *)

\* chunk i contributes a partial: it was a cache hit, or its call returned
Survives(i) == futures[i].st \in {"unsubmitted", "stored"}
\* the partial of chunk i: the sanitized cached response, or what its call returned
PartialOf(i) ==
    IF futures[i].st = "unsubmitted"
    THEN SanitizeSummary(Get(data, ChunkKey(parts, i)).s)
    ELSE futures[i].resp
RECURSIVE SurvivorsFrom(_)
SurvivorsFrom(i) ==
    IF i > Len(parts) THEN <<>>
    ELSE (IF Survives(i) THEN <<PartialOf(i)>> ELSE <<>>) \o SurvivorsFrom(i + 1)

\* C1: whatever order the dispatched chunk calls complete in, and with cache
\* hits mixed in, the merge input is the join of the surviving partials in
\* ascending chunk index.
C1_MergeInputInChunkOrder ==
    (mpc = "done" /\ results[run].kind # "heuristic") =>
        results[run].mergeInput = Join(<<"\n", "\n">>, SurvivorsFrom(1))

\* C1 witness: the second chunk completed and was stored before the first,
\* with a different response, and the merge input was built
C1_Witness ==
    /\ mpc = "done" /\ results[run].kind # "heuristic"
    /\ completed = <<2, 1>>
    /\ futures[1].st = "stored" /\ futures[2].st = "stored"
    /\ futures[1].resp # futures[2].resp

\* C2: when the summarizer raises for some chunks, the map stage does not
\* raise: each failed chunk is left out, every chunk whose call returned or
\* that was cached has its partial, and with at least one partial the run goes
\* on to the merge.
C2_FailedChunksAreOmitted ==
    /\ mpc # "raised"
    /\ mpc \in {"reduce", "done"} =>
          \A i \in 1..Len(parts) :
             IF Survives(i)
             THEN \E j \in 1..Len(partials) :
                     partials[j] = [idx |-> i, text |-> PartialOf(i)]
             ELSE /\ futures[i].st = "dropped"
                  /\ \A j \in 1..Len(partials) : partials[j].idx # i
    /\ (mpc = "done" /\ \E i \in 1..Len(parts) : Survives(i)) =>
          results[run].kind \in {"merged", "unmerged"}

\* C2 witness: one chunk call raised, another chunk was a cache hit, and the
\* run reached the merge
C2_Witness ==
    /\ mpc = "done" /\ results[run].kind = "merged"
    /\ \E i, j \in 1..Len(parts) :
          futures[i].st = "dropped" /\ futures[j].st = "unsubmitted"

\* C3: a second run on the same text over the same cache file returns what the
\* first run returned and calls the summarizer zero times.  Stated for
\* summarizers that never raised during the first run.
C3_SecondRunAllCacheHits ==
    (run = 2 /\ mpc = "done" /\ ~results[1].failed) =>
        /\ results[2].ncalls = 0
        /\ results[2].ret = results[1].ret

-----------------------------------------------------------------------------
(* Claims about ResponseCache, checked under Spec *)

\* C4: for every key k and value v, once set(k, v) has returned, get(k) returns
\* v on the same cache object and on every cache object constructed later over
\* the same file, until k is set again.
C4_SetThenGetReturnsValue ==
    proc = "open" =>
        \A k \in DOMAIN acked : acked[k] # None => Get(data, k) = acked[k]

\* C5: cache writes are never partial: whenever the cache has written the file,
\* the store a new cache object reads from it is the complete store of before
\* the call or the complete store of after it, also when the process is killed
\* inside the persist step.
C5_WritesNeverPartial ==
    stores # {} => (Construct(file).exc = "" /\ Construct(file).d \in stores)

\* C6: the result cache and the progress ledger are separate namespaces: a
\* set(key, value) that returns leaves get_progress() as it was, for every key;
\* set_progress_entry and clear_progress leave get(key) as it was for every
\* key; get never returns a progress payload.
C6_SeparateNamespaces ==
    /\ [][(last'.op = "set" /\ last'.exc = "")
            => GetProgress(data') = GetProgress(data)]_vars
    /\ [][(last'.op \in {"set_progress_entry", "clear_progress"} /\ last'.exc = "")
            => \A k \in Keys : Get(data', k) = Get(data, k)]_vars
    /\ [](last.op = "get" => last.ret.t # "dict")

\* C7: once set_progress_entry(path, payload) has returned, get_progress()
\* holds path with that payload across get, set, set_progress_entry for other
\* paths and reopening of the file, until clear_progress is called.
C7_ProgressEntryStays ==
    (proc = "open" /\ ~torn) =>
        \A p \in Paths : ackedProg[p] # NoEntry =>
            /\ GetProgress(data).exc = ""
            /\ GetProgress(data).d[p] = ackedProg[p]

\* C8: constructing a ResponseCache over a file that is not a cache store
\* (invalid JSON, undecodable bytes, JSON that is not an object) never raises
\* and yields an empty cache: get is absent for every key, get_progress is empty.
C8_CorruptFileGivesEmptyCache ==
    (last.op = "open" /\ file.kind \in CorruptKinds) =>
        /\ proc = "open"
        /\ \A k \in PlainKeys : Get(data, k) = None
        /\ GetProgress(data) = [exc |-> "", d |-> EmptyProgress]

-----------------------------------------------------------------------------
(* Claim about make_key, checked under SpecKey *)

\* C9: any two (logical key, content) pairs that differ in the logical key or
\* in the content, content being a string or None, get different keys.
C9_DistinctArgsDistinctKeys ==
    (kpc = "done" /\ keyIn[1] # keyIn[2]) => keyOut[1] # keyOut[2]

-----------------------------------------------------------------------------
(* Claim about chunk_text, checked under SpecChunk *)

\* every fence marker of the text opens or closes a complete fenced block
WellFenced(t) == Count(t, Fence) % 2 = 0

\* C10: every chunk chunk_text returns holds an even number of fence markers,
\* also when a fenced block alone exceeds the budget.  Stated for texts whose
\* fenced blocks are all closed.
C10_ChunksHoldWholeFences ==
    (cpc = "done" /\ WellFenced(text)) =>
        \A i \in 1..Len(chunks) : Count(chunks[i], Fence) % 2 = 0

\* the blocks _split_blocks finds in the text
BlocksOf(t) == {SplitBlocks(t)[j] : j \in 1..Len(SplitBlocks(t))}

\* C11: every chunk chunk_text returns has at most budget tokens (the
\* separators joining its blocks counted), unless the chunk is one block of
\* the text that alone exceeds the budget.
C11_ChunksWithinBudget ==
    cpc = "done" =>
        \A i \in 1..Len(chunks) :
            \/ Len(Encode(chunks[i])) <= budget
            \/ chunks[i] \in BlocksOf(text)

\* the chunks in order as one stream, "<sep>" where a chunk begins
RECURSIVE ChunkStream(_)
ChunkStream(cs) ==
    IF cs = <<>> THEN <<>> ELSE <<"<sep>">> \o Head(cs) \o ChunkStream(Tail(cs))

\* t with k leading whitespace characters taken off, for every possible k
AfterSeparator(t) ==
    {Slice(t, k, Len(t)) : k \in {n \in 0..Len(t) : \A j \in 1..n : IsSpace(t[j])}}

\* the text t reads as the stream c once the separators are put back: where a
\* chunk begins, and where a chunk has the "\n\n" that joins two blocks, the
\* text may have any run of whitespace; everything else is equal character
\* by character
RECURSIVE Restorable(_, _)
Restorable(t, c) ==
    IF c = <<>> THEN Strip(t) = <<>>
    ELSE IF Head(c) = "<sep>"
    THEN \E rest \in AfterSeparator(t) : Restorable(rest, Tail(c))
    ELSE \/ t # <<>> /\ Head(t) = Head(c) /\ Restorable(Tail(t), Tail(c))
         \/ /\ StartsWith(c, <<"\n", "\n">>)
            /\ \E rest \in AfterSeparator(t) : Restorable(rest, Tail(Tail(c)))

\* C12: chunk_text is lossless: the chunks in order, with the original
\* separators between the blocks put back, give the input text up to trimming
\* of the whole text.
C12_ChunksReconstructText ==
    cpc = "done" => Restorable(text, ChunkStream(chunks))

\* the heading lines and the paragraph lines among the lines of the inputs
HeadingLines == {l \in LineVocabulary : StartsWith(l, <<"#">>)}
ParagraphLines ==
    {l \in LineVocabulary : l # <<>> /\ ~StartsWith(l, <<"#">>) /\ ~StartsWith(l, Fence)}
\* a heading line and its paragraph
Section(h, para) == Join(<<"\n">>, <<h, para>>)
\* the number of tokens of a text
Tokens(t) == Len(Encode(t))

\* C13: for a text of two heading+paragraph sections with a blank line
\* between them, and a budget that holds either section but not both,
\* chunk_text returns exactly 2 chunks, each starting with its section's heading.
C13_TwoSectionsTwoChunks ==
    \A h1 \in HeadingLines, h2 \in HeadingLines,
       p1 \in ParagraphLines, p2 \in ParagraphLines :
        (/\ cpc = "done"
         /\ text = Join(<<"\n">>, <<h1, p1, <<>>, h2, p2>>)
         /\ Tokens(Section(h1, p1)) <= budget
         /\ Tokens(Section(h2, p2)) <= budget
         /\ budget < Tokens(Section(h1, p1)) + Tokens(Section(h2, p2)))
        => /\ Len(chunks) = 2
           /\ StartsWith(chunks[1], h1)
           /\ StartsWith(chunks[2], h2)

-----------------------------------------------------------------------------
(* Claims about the reduce stage of _summarize_manual *)

\* C14: the hierarchical merge loop is capped by an iteration limit: once
\* MaxPasses passes are done the loop is not entered again, also when the
\* summarizer returns texts no shorter than its inputs.
C14_MergePassesCapped ==
    (mpc = "reduce" /\ partials # <<>> /\ merge.iteration >= MaxPasses)
        => WithinLimits(CurrentMergeInput)

-----------------------------------------------------------------------------
(* Claims about summarize_chunked, checked under SpecSum *)

\* C15: every nested call of _merge_recursive (for a group, for the merged
\* list, or inside the summarize_chunked a single item is routed through)
\* gets a merge input with fewer tokens than the merge input of the call
\* around it, for summarizers whose output is shorter than an oversized input.
Shortening == {"const", "drop"}
C15_NestedMergesShrink ==
    sargs.stub \in Shortening =>
        \A i \in 1..Len(shist.nested) : shist.nested[i].callee < shist.nested[i].caller

\* C16: every text handed to the summarizer has at most max_context_tokens
\* minus the overhead of its prompt type (system prompt plus empty template)
\* tokens.
C16_CallsFitContext ==
    \A i \in 1..Len(scalls) : scalls[i].tokens <= scalls[i].allowed

\* C17: when the summarizer raises during a merge call, summarize_chunked does
\* not raise and returns the concatenation of the partial summaries it was
\* about to merge, in chunk order (up to white space at its ends), and the
\* cache holds nothing under the key of the failed call.
C17_FailedMergeReturnsPartials ==
    /\ \A i \in 1..Len(shist.fallbacks) :
          shist.fallbacks[i].cause = "summarizer" =>
              shist.fallbacks[i].ret = Strip(Join(<<"\n">>, shist.fallbacks[i].partials))
    /\ \A i \in 1..Len(scalls) :
          (~scalls[i].ok /\ scalls[i].prompt_type = "docstring") =>
              Get(data, scalls[i].key) = None

-----------------------------------------------------------------------------
(* Further claims about _summarize_manual, checked under SpecManual *)

\* the calls made with MERGE_SYSTEM_PROMPT
MergeCalls == SelectSeq(calls, LAMBDA c : c.prompt = "merge")
\* the calls made with CHUNK_SYSTEM_PROMPT
ChunkCalls == SelectSeq(calls, LAMBDA c : c.prompt = "chunk")
AllDropped == \A i \in 1..Len(parts) : futures[i].st = "dropped"

\* C18: when no chunk is cached and every chunk call fails, _summarize_manual
\* does not raise, makes no merge call, and returns the rendered sections of
\* infer_sections, the first of which is Overview with the stripped input text.
C18_AllChunksFailHeuristic ==
    (mpc = "done" /\ AllDropped) =>
        /\ MergeCalls = <<>>
        /\ StartsWith(results[run].ret,
                      <<"Overview", ":", " ">> \o Strip(ManualText(parts)) \o <<"\n">>)
        /\ results[run].ret = InferSections(ManualText(parts))

\* C18 witness: a run over two different chunks whose calls both raised
C18_Witness ==
    /\ mpc = "done" /\ AllDropped
    /\ parts[1] # parts[2]
    /\ Len(ChunkCalls) = Len(parts)

\* the response of the merge call of a run, as cache.set stored it (line 246)
MergeResponse(r) == Get(data, FinalKey(r.finalInput)).s
FirstRunSucceeded == run = 1 /\ mpc = "done" /\ \A i \in 1..Len(calls) : calls[i].ok

\* C19: on an empty cache, with n chunks whose joined partials fit the limits
\* and a summarizer that does not raise, the summarizer is called exactly n
\* times with the chunk system prompt, then exactly once with the merge system
\* prompt, and the value returned is the response of the merge call.
C19_ChunkCallsThenOneMerge ==
    FirstRunSucceeded =>
        /\ Len(calls) = Len(parts) + 1
        /\ \A i \in 1..Len(parts) : calls[i].prompt = "chunk"
        /\ calls[Len(calls)].prompt = "merge"
        /\ results[1].ret = MergeResponse(results[1])

-----------------------------------------------------------------------------
(* Claim about the threads of the map stage, checked under SpecThreads *)

\* C20: under every interleaving of the worker threads, at most one thread
\* is inside ResponseCache.set for a map-stage result at any time, and that
\* thread is the collecting thread, never a worker.
C20_CacheWritesSerialized ==
    /\ Cardinality(writers) <= 1
    /\ writers \subseteq {"main"}

\* C20 witness: the collecting thread is inside ResponseCache.set while a
\* worker is still running client.summarize for another chunk
C20_Witness ==
    /\ writers = {"main"}
    /\ \E i \in 1..Len(parts) : futures[i].st = "pending"

-----------------------------------------------------------------------------
(* Claim about map_evidence_to_sections, checked under SpecEvidence *)

\* the path has a directory component named tests, examples or fixtures
HasExcludedDirectory(path) ==
    \E i \in 1..(Len(path) - 1) : path[i] \in {"tests", "examples", "fixtures"}
SectionIndex(name) == CHOOSE i \in 1..Len(SECTION_KEYWORDS) : SECTION_KEYWORDS[i].section = name
\* the lines of a document that name a section other than Overview first
OtherSectionLines(doc) ==
    LET lines == SplitLines(doc.text)
    IN  {idx \in 1..Len(lines) :
            FirstSection(LowerStr(Strip(lines[idx]))) \notin {0, SectionIndex(<<"Overview">>)}}

\* C22: the Overview entries map_evidence_to_sections returns never come from
\* a path with a directory component named tests, examples or fixtures, while
\* a line of such a document that names another section is kept as an entry
\* of that section.
C22_OverviewExcludesTestDirs ==
    epc = "done" =>
        /\ \A k \in 1..Len(sectionMap[SectionIndex(<<"Overview">>)]) :
                ~HasExcludedDirectory(sectionMap[SectionIndex(<<"Overview">>)][k].path)
        /\ \A d \in 1..Len(docs) :
                HasExcludedDirectory(docs[d].path) =>
                    \A idx \in OtherSectionLines(docs[d]) :
                        \E k \in 1..Len(sectionMap[FirstSection(LowerStr(Strip(SplitLines(docs[d].text)[idx])))]) :
                            sectionMap[FirstSection(LowerStr(Strip(SplitLines(docs[d].text)[idx])))][k].path
                                = docs[d].path

\* C22 witness: a document under tests/ has an overview heading and an inputs
\* heading; Overview holds an entry, from another document only, and Inputs
\* holds the entry of the tests/ document
C22_Witness ==
    /\ epc = "done"
    /\ \E d \in 1..Len(docs) :
            /\ docs[d].path = <<"tests", "notes.md">>
            /\ Contains(docs[d].text, <<"Overview">>)
            /\ \E k \in 1..Len(sectionMap[SectionIndex(<<"Inputs">>)]) :
                    sectionMap[SectionIndex(<<"Inputs">>)][k].path = docs[d].path
    /\ sectionMap[SectionIndex(<<"Overview">>)] # <<>>

-----------------------------------------------------------------------------
(* Claim about explaincode.main, checked under SpecMain *)

\* C21: on every path through main (doc pass only, code pass, fallback) no
\* section text handed to render_html holds a bracketed token that
\* find_placeholders detects.
C21_NoPlaceholderReachesRendering ==
    xpc = "render" =>
        \A k \in 1..Len(msections) : FindPlaceholders(msections[k].text) = {}

-----------------------------------------------------------------------------
(* Claim about the structural chunker, checked under SpecStruct *)

Fits(unit, token_budget) == Tokens(unit.source) <= token_budget

\* C23: a unit whose source fits the budget is emitted as exactly one chunk,
\* its full source; a unit that exceeds the budget and whose sub-units each
\* fit is emitted as exactly the sub-units' sources, in declaration order.
C23_UnitsStayAtomic ==
    fnPc = "done" =>
        LET unit == fnIn.unit
        IN  /\ Fits(unit, fnIn.budget) => fnOut = <<unit.source>>
            /\ ( /\ ~Fits(unit, fnIn.budget) /\ unit.children # <<>>
                 /\ \A k \in 1..Len(unit.children) : Fits(unit.children[k], fnIn.budget) )
               => fnOut = [k \in 1..Len(unit.children) |-> unit.children[k].source]

\* C23 witness: a class over the budget was emitted as its two methods
C23_Witness ==
    /\ fnPc = "done"
    /\ ~Fits(fnIn.unit, fnIn.budget)
    /\ Len(fnIn.unit.children) = 2
    /\ \A k \in 1..2 : Fits(fnIn.unit.children[k], fnIn.budget)
    /\ fnOut = <<fnIn.unit.children[1].source, fnIn.unit.children[2].source>>

-----------------------------------------------------------------------------
(* Claim about resuming docgenerator, checked under SpecResume *)

\* the modules in order that are not in the set
ModulesNotIn(S) == SelectSeq(ModulePaths(rhist.modules), LAMBDA m : m \notin S)

\* C24: after the interruption the progress ledger read from cache.json holds
\* exactly the modules the first run completed; the resumed run summarizes
\* exactly the modules without an entry, writes a page for every module and
\* leaves an empty ledger.
C24_ResumeSkipsCompletedModules ==
    /\ rpc = "interrupted" => LoadLedger(rfile) = rhist.completed
    /\ (rrun = 2 /\ rpc = "done") =>
          /\ rcalls = ModulesNotIn(rhist.resumed)
          /\ rhist.resumed = rhist.completed
          /\ rout = AllModules(rhist.modules)
          /\ LoadLedger(rfile) = {}

-----------------------------------------------------------------------------
(* Claim about the tokenizer, checked under SpecEncode *)

HasFimToken(t) == \E p \in FimPatterns : Contains(t, p)

\* C25: for every text, no token that encode returns holds a reserved FIM
\* sequence, and neither does decode(encode(text)).
C25_EncodedTextHasNoFimToken ==
    fnPc = "done" =>
        /\ \A k \in 1..Len(fnOut.tokens) : ~HasFimToken(fnOut.tokens[k])
        /\ ~HasFimToken(fnOut.decoded)

-----------------------------------------------------------------------------
(* Claim about sanitize_summary, checked under SpecSanitize *)

\* C29: sanitize_summary applied to its own result returns that result.
C29_SanitizeIsIdempotent ==
    fnPc = "done" => fnOut.second = fnOut.first

-----------------------------------------------------------------------------
(* Claim about _rewrite_docstring, checked under SpecRewrite *)

\* C28: two invocations of _rewrite_docstring that compute the same cache key
\* build the same prompt, so that a cache hit returns a result computed for
\* the identical prompt.
C28_SameKeySamePrompt ==
    (fnPc = "done" /\ ~fnOut[1].returned /\ ~fnOut[2].returned) =>
        (fnOut[1].key = fnOut[2].key => fnOut[1].prompt = fnOut[2].prompt)

-----------------------------------------------------------------------------
(* Claim about LLMClient.summarize, checked under SpecRetry *)

Failed(a) == a.kind \in {"http_error", "request_error"}
\* the message of a failed attempt: the text of the exception, or what the
\* error response says
MessageOf(a) ==
    IF a.kind = "request_error" THEN a.str
    ELSE IF a.body = "error_member" THEN a.error ELSE a.text

\* C27: summarize makes at most 3 attempts; every attempt but the last one
\* made has failed with a request or HTTP error and was followed by a wait; a
\* successful attempt ends the call, which returns the sanitized content; three
\* failures end it with RuntimeError carrying the message of the third.
C27_ThreeAttemptsThenRuntimeError ==
    /\ Len(attempts) <= 3
    /\ \A i \in 1..(Len(attempts) - 1) : Failed(attempts[i])
    /\ sleeps = Cardinality({i \in 1..Len(attempts) : Failed(attempts[i])})
    /\ \A i \in 1..Len(attempts) :
          attempts[i].kind = "ok" =>
              /\ i = Len(attempts) /\ lpc = "done"
              /\ lret = [kind |-> "returned", value |-> SanitizeSummary(attempts[i].content)]
    /\ (lpc = "done" /\ Len(attempts) = 3 /\ Failed(attempts[3])) =>
          lret = [kind |-> "raised",
                  value |-> <<"RuntimeError", "LLM request failed: ">> \o MessageOf(attempts[3])]
    /\ (lret.kind = "raised" /\ Head(lret.value) = "RuntimeError") =>
          (Len(attempts) = 3 /\ \A i \in 1..3 : Failed(attempts[i]))
    /\ (Len(attempts) < 3 /\ attempts # <<>> /\ Failed(attempts[Len(attempts)])) => lpc = "loop"

\* C27 witness: three attempts failed with different messages and the call
\* has raised
C27_Witness ==
    /\ lpc = "done" /\ Len(attempts) = 3
    /\ \A i \in 1..3 : Failed(attempts[i])
    /\ MessageOf(attempts[1]) # MessageOf(attempts[3])
    /\ lret.kind = "raised"

-----------------------------------------------------------------------------
(* Claim about the chunking option, checked under SpecMode *)

\* C26: with chunking "none" no text is split, each request carrying its whole
\* input even when it is over the limits; with "manual" the text is always
\* chunked; with "auto" it is chunked exactly when it has more than 2000
\* tokens or more than 6000 characters.
C26_ChunkingModeDecidesSplitting ==
    fnPc = "done" =>
        /\ fnIn.chunking = "none" =>
              /\ ~fnOut.chunked
              /\ fnOut.requests \in {<<>>, <<fnIn.text>>}
        /\ fnIn.chunking = "manual" => fnOut.chunked
        /\ fnIn.chunking = "auto" =>
              (fnOut.chunked <=> (fnIn.text.tokens > 2000 \/ fnIn.text.chars > 6000))

-----------------------------------------------------------------------------
(* Claim about failed summarizer calls, checked under SpecCachedCalls *)

\* the cache a later run loads
LaterCache == Construct(file').d
Unwritten == data' = data /\ file' = file

\* C30 (map stage): a chunk call that raises, and the as_completed loop
\* handling it, leave the cache as it is, without an entry under the chunk's
\* key; the response of a chunk call that returned is stored under its key.
MapStageStep ==
    \A i \in 1..Len(futures) :
        /\ (futures[i].st = "pending" /\ futures'[i].st = "raised") => Unwritten
        /\ (futures[i].st = "raised" /\ futures'[i].st = "dropped") =>
              Unwritten /\ Get(LaterCache, ChunkKey(parts, i)) = None
        /\ (futures[i].st = "done" /\ futures'[i].st = "stored") =>
              Get(LaterCache, ChunkKey(parts, i)) = Str(futures[i].resp)

\* C30 (merge passes and final merge): the same for the call of a piece of a
\* merge pass and for the final merge call.
MergeStep ==
    (Len(calls') = Len(calls) + 1 /\ calls'[Len(calls')].prompt = "merge") =>
        LET c == calls'[Len(calls')]
            key == IF mpc = "merge" THEN MergeKey(merge.iteration, merge.next, c.text)
                   ELSE FinalKey(c.text)
        IN /\ Get(data, key) = None
           /\ IF c.ok THEN Get(LaterCache, key) # None /\ Get(data', key) = Get(LaterCache, key)
              ELSE Unwritten /\ Get(LaterCache, key) = None

\* C30 (_summarize): the same for a call made by the helper.
HelperStep ==
    Len(scalls') = Len(scalls) + 1 =>
        LET c == scalls'[Len(scalls')] IN
        /\ Get(data, c.key) = None
        /\ IF c.ok THEN Get(LaterCache, c.key) # None /\ Get(data', c.key) = Get(LaterCache, c.key)
           ELSE Unwritten /\ Get(LaterCache, c.key) = None

\* C30: a summarizer call that raises leaves the cache unchanged, so that a
\* later run misses its key and calls again, and every call that returns has
\* its response written under its key.
C30_FailedCallsLeaveCacheUnchanged ==
    [][MapStageStep /\ MergeStep /\ HelperStep]_vars

\* C30 witness: a run in which one chunk call raised and one returned, and
\* whose final merge call raised: the cache holds the entry of the chunk that
\* returned and none for the two calls that raised
C30_Witness ==
    /\ mpc = "done" /\ Len(futures) = 2
    /\ \E i, j \in 1..2 :
          /\ futures[i].st = "dropped" /\ futures[j].st = "stored"
          /\ Get(Construct(file).d, ChunkKey(parts, i)) = None
          /\ Get(Construct(file).d, ChunkKey(parts, j)) = Str(futures[j].resp)
    /\ ~calls[Len(calls)].ok /\ calls[Len(calls)].prompt = "merge"
    /\ Get(Construct(file).d, FinalKey(calls[Len(calls)].text)) = None

====
